---- MODULE Spec2Model ----
(***************************************************************************)
(* A model of the mcp-explorer tool handlers: the allowed-directory guard, *)
(* the search_files handler (walk and per-line match loop), rename_file,   *)
(* delete_file and check_outdated.                                          *)
(*                                                                         *)
(* Strings are sequences of one-character strings, so that prefix tests,   *)
(* normalisation and substring extraction are computed character by        *)
(* character, as the code computes them.  Paths are POSIX paths.           *)
(***************************************************************************)
EXTENDS Integers, Sequences, FiniteSets, TLC

VARIABLES allowedDirectories, fs, fs0, tool, pc, args, options, resolved,
          stack, results, response, ioLog, lines, lineI, lastIndex, matches,
          runs, limitedResults, previous, other

vars == <<allowedDirectories, fs, fs0, tool, pc, args, options, resolved,
          stack, results, response, ioLog, lines, lineI, lastIndex, matches,
          runs, limitedResults, previous, other>>

(***************************************************************************)
(* Bounds of the model.                                                    *)
(***************************************************************************)
MaxPathLen == 5
MaxRootLen == 3
MaxRuns == 3
MaxContentLen == 4
MaxPatternLen == 2
MaxSnippetArg == 1
MaxDepthArg == 1
MaxResultsArg == 2
MaxNameLen == 3
MaxExtLen == 2

Max(a, b) == IF a > b THEN a ELSE b
Min(a, b) == IF a < b THEN a ELSE b

(***************************************************************************)
(* String helpers (String.prototype.startsWith, substring, split, join).   *)
(***************************************************************************)
StartsWith(s, t) == Len(t) <= Len(s) /\ SubSeq(s, 1, Len(t)) = t

\* line.substring(a, b) for 0 <= a <= b <= Len(line), 0-based, end exclusive
Substring(s, a, b) == SubSeq(s, a + 1, b)

RECURSIVE SplitAt(_, _, _)
SplitAt(s, i, cur) ==
  IF i > Len(s) THEN <<cur>>
  ELSE IF s[i] = "/" THEN <<cur>> \o SplitAt(s, i + 1, <<>>)
  ELSE SplitAt(s, i + 1, Append(cur, s[i]))

\* s.split('/')
Split(s) == SplitAt(s, 1, <<>>)

RECURSIVE JoinSegs(_)
JoinSegs(segs) ==
  IF Len(segs) = 0 THEN <<>>
  ELSE IF Len(segs) = 1 THEN segs[1]
  ELSE segs[1] \o <<"/">> \o JoinSegs(Tail(segs))

(***************************************************************************)
(* Node's path module (POSIX flavour).                                     *)
(***************************************************************************)
DotDot == <<".", ".">>

RECURSIVE NormSegs(_, _, _, _)
NormSegs(segs, i, res, allowAboveRoot) ==
  IF i > Len(segs) THEN res
  ELSE LET s == segs[i] IN
    IF s = <<>> \/ s = <<".">> THEN NormSegs(segs, i + 1, res, allowAboveRoot)
    ELSE IF s = DotDot THEN
      IF Len(res) > 0 /\ res[Len(res)] # DotDot
        THEN NormSegs(segs, i + 1, SubSeq(res, 1, Len(res) - 1), allowAboveRoot)
      ELSE IF allowAboveRoot
        THEN NormSegs(segs, i + 1, Append(res, DotDot), allowAboveRoot)
      ELSE NormSegs(segs, i + 1, res, allowAboveRoot)
    ELSE NormSegs(segs, i + 1, Append(res, s), allowAboveRoot)

isAbsolute(p) == Len(p) > 0 /\ p[1] = "/"

\* path.normalize(p)
normalize(p) ==
  IF Len(p) = 0 THEN <<".">>
  ELSE LET abs   == isAbsolute(p)
           trail == p[Len(p)] = "/"
           body  == JoinSegs(NormSegs(Split(p), 1, <<>>, ~abs))
       IN IF Len(body) = 0
            THEN (IF abs THEN <<"/">> ELSE IF trail THEN <<".", "/">> ELSE <<".">>)
            ELSE (IF abs THEN <<"/">> ELSE <<>>) \o body
                 \o (IF trail THEN <<"/">> ELSE <<>>)

\* process.cwd(), the directory relative paths are resolved against
Cwd == <<"/", "w">>

\* path.resolve(p): absolute, normalised, no trailing separator
resolve(p) ==
  LET full == IF isAbsolute(p) THEN p ELSE Cwd \o <<"/">> \o p
  IN <<"/">> \o JoinSegs(NormSegs(Split(full), 1, <<>>, FALSE))

\* path.join(a, b)
join(a, b) ==
  IF Len(a) = 0 THEN normalize(b)
  ELSE IF Len(b) = 0 THEN normalize(a)
  ELSE normalize(a \o <<"/">> \o b)

\* the non-empty segments of a path
Segs(p) == SelectSeq(Split(p), LAMBDA s : s # <<>>)

\* path.basename(p)
basename(p) == LET ss == Segs(p) IN IF Len(ss) = 0 THEN <<>> ELSE ss[Len(ss)]

\* path.dirname(p) of an absolute or relative path
dirname(p) ==
  LET ss == Segs(p) IN
    IF Len(ss) = 0 THEN (IF isAbsolute(p) THEN <<"/">> ELSE <<".">>)
    ELSE IF Len(ss) = 1 THEN (IF isAbsolute(p) THEN <<"/">> ELSE <<".">>)
    ELSE (IF isAbsolute(p) THEN <<"/">> ELSE <<>>)
         \o JoinSegs(SubSeq(ss, 1, Len(ss) - 1))

(***************************************************************************)
(* The allowed-directory guards.                                           *)
(***************************************************************************)
\* s.replace(/\\/g, '/')
ReplaceBackslash(s) == [i \in 1..Len(s) |-> IF s[i] = "\\" THEN "/" ELSE s[i]]

\* the guard without the separator after the root
isPathAllowed_NoSeparator(pathToCheck, dirs) ==
  LET normalizedPath == ReplaceBackslash(normalize(pathToCheck))
  IN \E k \in 1..Len(dirs) :
       LET normalizedDir == ReplaceBackslash(normalize(dirs[k]))
       IN normalizedPath = normalizedDir \/ StartsWith(normalizedPath, normalizedDir)

\* isPathAllowed of the search tool
isPathAllowed(pathToCheck, dirs) ==
  LET normalizedPath == ReplaceBackslash(normalize(pathToCheck))
  IN \E k \in 1..Len(dirs) :
       LET normalizedDir == ReplaceBackslash(normalize(dirs[k]))
       IN normalizedPath = normalizedDir
          \/ StartsWith(normalizedPath, normalizedDir \o <<"/">>)

\* the inline guard of handleRenameFile (used for oldPath and for newPath)
renamePathAllowed(resolvedPath, dirs) ==
  \E k \in 1..Len(dirs) : StartsWith(resolvedPath, resolve(dirs[k]))

\* the inline guard of handleDeleteFile
deletePathAllowed(resolvedPath, dirs) ==
  \E k \in 1..Len(dirs) : StartsWith(resolvedPath, resolve(dirs[k]))

\* the inline guard of handleCheckOutdated
outdatedPathAllowed(resolvedPath, dirs) ==
  \E k \in 1..Len(dirs) : StartsWith(resolvedPath, resolve(dirs[k]))

(***************************************************************************)
(* JavaScript values and regular expressions, as far as searchInFile uses  *)
(* them.  A regex source is a string over literals, '.', the '*'           *)
(* quantifier and backslash escapes ('\b' is the word-boundary assertion). *)
(***************************************************************************)
\* An optional number is <<>> (undefined) or <<n>>.
\* v || d for an optional number: the default replaces undefined and 0
OrDefault(v, d) == IF v = <<>> \/ v[1] = 0 THEN d ELSE v[1]

DefaultSnippetLength == 50
DefaultMaxResults == 100

\* the characters escaped by pattern.replace(/[.*+?^${}()|[\]\\]/g, '\\$&')
MetaChars == {".", "*", "+", "?", "^", "$", "{", "}", "(", ")", "|", "[", "]", "\\"}

EscapeRegExp_None(src) == src

RECURSIVE EscapeRegExp(_)
EscapeRegExp(src) ==
  IF Len(src) = 0 THEN <<>>
  ELSE (IF Head(src) \in MetaChars THEN <<"\\", Head(src)>> ELSE <<Head(src)>>)
       \o EscapeRegExp(Tail(src))

\* the source handed to new RegExp (escaping, then the \b wrapping)
PatternSource(opts) ==
  LET p1 == IF ~opts.regexMode THEN EscapeRegExp(opts.pattern) ELSE opts.pattern
  IN IF opts.wordBoundary THEN <<"\\", "b">> \o p1 \o <<"\\", "b">> ELSE p1

Atom(kind, c, q) == [kind |-> kind, c |-> c, q |-> q]

\* new RegExp(source): the atoms of the pattern, or a SyntaxError
RECURSIVE ParseAt(_, _, _)
ParseAt(src, i, acc) ==
  IF i > Len(src) THEN [ok |-> TRUE, atoms |-> acc]
  ELSE LET c == src[i] IN
    IF c = "*" THEN
      IF Len(acc) = 0 \/ acc[Len(acc)].q # "one" \/ acc[Len(acc)].kind = "wb"
        THEN [ok |-> FALSE, atoms |-> <<>>]
        ELSE ParseAt(src, i + 1,
               [acc EXCEPT ![Len(acc)] = Atom(acc[Len(acc)].kind, acc[Len(acc)].c, "star")])
    ELSE IF c = "\\" THEN
      IF i = Len(src) THEN [ok |-> FALSE, atoms |-> <<>>]
      ELSE IF src[i + 1] = "b" THEN ParseAt(src, i + 2, Append(acc, Atom("wb", "b", "one")))
      ELSE ParseAt(src, i + 2, Append(acc, Atom("char", src[i + 1], "one")))
    ELSE IF c = "." THEN ParseAt(src, i + 1, Append(acc, Atom("any", ".", "one")))
    ELSE ParseAt(src, i + 1, Append(acc, Atom("char", c, "one")))

\* the alternatives of a pattern source: it is cut at every "|" that is not
\* escaped (the model has no groups, so every "|" is at the top level)
RECURSIVE SplitAltsAt(_, _, _, _)
SplitAltsAt(src, i, cur, acc) ==
  IF i > Len(src) THEN Append(acc, cur)
  ELSE IF src[i] = "\\" /\ i < Len(src)
    THEN SplitAltsAt(src, i + 2, cur \o <<src[i], src[i + 1]>>, acc)
  ELSE IF src[i] = "|" THEN SplitAltsAt(src, i + 1, <<>>, Append(acc, cur))
  ELSE SplitAltsAt(src, i + 1, Append(cur, src[i]), acc)

\* new RegExp(src): a disjunction of alternatives, each a sequence of atoms
RegExpCompile(src) ==
  LET parts  == SplitAltsAt(src, 1, <<>>, <<>>)
      parsed == [k \in 1..Len(parts) |-> ParseAt(parts[k], 1, <<>>)]
  IN [ok   |-> \A k \in 1..Len(parts) : parsed[k].ok,
      alts |-> [k \in 1..Len(parts) |-> parsed[k].atoms]]

\* toLowerCase of one character; the 'i' flag compares characters by it
Lower(c) ==
  LET upper == <<"A", "B", "C", "D", "E", "F", "G", "H", "I", "J", "K", "L", "M",
                 "N", "O", "P", "Q", "R", "S", "T", "U", "V", "W", "X", "Y", "Z">>
      lower == <<"a", "b", "c", "d", "e", "f", "g", "h", "i", "j", "k", "l", "m",
                 "n", "o", "p", "q", "r", "s", "t", "u", "v", "w", "x", "y", "z">>
  IN IF \E i \in 1..26 : upper[i] = c
       THEN lower[CHOOSE i \in 1..26 : upper[i] = c]
       ELSE c

LowerStr(s) == [i \in 1..Len(s) |-> Lower(s[i])]

\* String.prototype.includes
Contains(s, t) == \E i \in 0..(Len(s) - Len(t)) : SubSeq(s, i + 1, i + Len(t)) = t

\* the characters of \w that occur in the inputs of the model
WordChars == {"a", "b", "c", "d", "e", "f", "g", "h", "i", "j", "k", "l", "m",
              "n", "o", "p", "q", "r", "s", "t", "u", "v", "w", "x", "y", "z",
              "A", "B", "C", "D", "E", "F", "G", "H", "I", "J", "K", "L", "M",
              "N", "O", "P", "Q", "R", "S", "T", "U", "V", "W", "X", "Y", "Z",
              "0", "1", "2", "3", "4", "5", "6", "7", "8", "9", "_"}

\* the \b assertion at 0-based position pos of line
AtWordBoundary(line, pos) ==
  LET before == pos >= 1 /\ line[pos] \in WordChars
      after  == pos < Len(line) /\ line[pos + 1] \in WordChars
  IN before # after

AtomMatches(a, ch, ignoreCase) ==
  IF a.kind = "any" THEN ch # "\n" /\ ch # "\r"
  ELSE IF ignoreCase THEN Lower(a.c) = Lower(ch) ELSE a.c = ch

RECURSIVE MaxReps(_, _, _, _)
MaxReps(a, line, pos, ignoreCase) ==
  IF pos < Len(line) /\ AtomMatches(a, line[pos + 1], ignoreCase)
    THEN 1 + MaxReps(a, line, pos + 1, ignoreCase)
    ELSE 0

\* the end position of the match of atoms[k..] at pos (greedy, backtracking),
\* or -1 when there is none
RECURSIVE MatchAt(_, _, _, _, _)
RECURSIVE TryReps(_, _, _, _, _, _)
MatchAt(atoms, k, line, pos, ignoreCase) ==
  IF k > Len(atoms) THEN pos
  ELSE LET a == atoms[k] IN
    IF a.kind = "wb" THEN
      IF AtWordBoundary(line, pos) THEN MatchAt(atoms, k + 1, line, pos, ignoreCase) ELSE -1
    ELSE IF a.q = "star" THEN
      TryReps(atoms, k, line, pos, ignoreCase, MaxReps(a, line, pos, ignoreCase))
    ELSE IF pos < Len(line) /\ AtomMatches(a, line[pos + 1], ignoreCase)
      THEN MatchAt(atoms, k + 1, line, pos + 1, ignoreCase)
      ELSE -1

TryReps(atoms, k, line, pos, ignoreCase, n) ==
  LET r == MatchAt(atoms, k + 1, line, pos + n, ignoreCase) IN
    IF r # -1 THEN r
    ELSE IF n = 0 THEN -1
    ELSE TryReps(atoms, k, line, pos, ignoreCase, n - 1)

\* the end position of the match of a disjunction at pos: that of its first
\* alternative that matches there, or -1 when none does
MatchAny(alts, line, pos, ignoreCase) ==
  LET hits == {k \in 1..Len(alts) : MatchAt(alts[k], 1, line, pos, ignoreCase) # -1} IN
    IF hits = {} THEN -1
    ELSE MatchAt(alts[CHOOSE k \in hits : \A k2 \in hits : k <= k2], 1,
                 line, pos, ignoreCase)

\* regex.exec(line) of a global regex whose lastIndex is li: the leftmost
\* match at or after li; a failed exec resets lastIndex to 0
RegExpExec(alts, ignoreCase, line, li) ==
  LET starts == {i \in li..Len(line) : MatchAny(alts, line, i, ignoreCase) # -1} IN
    IF li > Len(line) \/ starts = {}
      THEN [found |-> FALSE, index |-> 0, end |-> 0, lastIndex |-> 0]
      ELSE LET i == CHOOSE j \in starts : \A j2 \in starts : j <= j2
               e == MatchAny(alts, line, i, ignoreCase)
           IN [found |-> TRUE, index |-> i, end |-> e, lastIndex |-> e]

\* the radius used for the snippet of a match
SnippetRadius(snippetLength) == OrDefault(snippetLength, DefaultSnippetLength)

\* the record pushed for one match of exec on line number i (0-based)
MatchRecord(line, i, m, snippetLength) ==
  LET snippetStart == Max(0, m.index - SnippetRadius(snippetLength))
      snippetEnd   == Min(Len(line), m.end + SnippetRadius(snippetLength))
  IN [lineNumber |-> i + 1, lineContent |-> line,
      matchStart |-> m.index, matchEnd |-> m.end,
      snippet |-> Substring(line, snippetStart, snippetEnd)]

\* lastIndex after one iteration of the while loop that found m
AdvanceLastIndex_NoBump(m) == m.lastIndex

AdvanceLastIndex(m) == IF m.end - m.index = 0 THEN m.lastIndex + 1 ELSE m.lastIndex

(***************************************************************************)
(* State shared by the specifications.  A request is handled by one tool   *)
(* at a time; pc is the handler's position.                                 *)
(***************************************************************************)
NoResponse == [kind |-> "none", code |-> "", value |-> <<>>]
Error(code, what) == [kind |-> "error", code |-> code, value |-> what]
Result(v) == [kind |-> "result", code |-> "", value |-> v]

\* every request-local variable at rest
Quiet ==
  /\ options = <<>> /\ resolved = <<>> /\ stack = <<>> /\ results = <<>>
  /\ response = NoResponse /\ ioLog = <<>>
  /\ lines = <<>> /\ lineI = 0 /\ lastIndex = 0 /\ matches = <<>> /\ runs = 0
  /\ limitedResults = <<>> /\ previous = <<>> /\ other = <<>>

StrUpTo(A, n) == UNION {[1..k -> A] : k \in 0..n}

PathAlphabet == {"/", ".", "a", "b"}

(***************************************************************************)
(* The guard as a pure function: isPathAllowed applied to every path up to *)
(* MaxPathLen characters and every absolute root up to MaxRootLen.         *)
(***************************************************************************)
GuardPaths == StrUpTo(PathAlphabet, MaxPathLen)
GuardRoots == {r \in StrUpTo(PathAlphabet, MaxRootLen) : isAbsolute(r)}

InitGuard ==
  /\ allowedDirectories \in {<<r>> : r \in GuardRoots}
                            \cup {<<r, <<"/", "b">> >> : r \in GuardRoots}
  /\ fs = <<>> /\ fs0 = <<>>
  /\ tool = "guard" /\ pc = "call"
  /\ args \in [path : GuardPaths]
  /\ Quiet

GuardEval ==
  /\ tool = "guard" /\ pc = "call"
  /\ response' = Result(isPathAllowed(args.path, allowedDirectories))
  /\ pc' = "done"
  /\ UNCHANGED <<allowedDirectories, fs, fs0, tool, args, options, resolved,
                 stack, results, ioLog, lines, lineI, lastIndex, matches, runs, limitedResults, previous, other>>

NextGuard == GuardEval

SpecGuard == InitGuard /\ [][NextGuard]_vars

\* the location an absolute path names: its segments with '.' and '..' resolved
Located(p) == NormSegs(Split(p), 1, <<>>, FALSE)

SegPrefix(a, b) == Len(a) <= Len(b) /\ \A i \in 1..Len(a) : a[i] = b[i]

\* p, normalised, equals root or continues it with a separator
EqualOrUnder(p, root) ==
  LET P == normalize(p)
      R == normalize(root)
  IN P = R \/ (/\ Len(P) > Len(R)
               /\ \A i \in 1..Len(R) : P[i] = R[i]
               /\ P[Len(R) + 1] = "/")

\* C3: isPathAllowed(path, roots) is true exactly when the normalised path
\* equals a normalised root or continues it with a separator; an accepted
\* path names a location at or below the root's location, so a path that only
\* shares a string prefix with the root, or leaves it through '..', is refused.
C3_GuardExact ==
  (tool = "guard" /\ pc = "done") =>
    /\ response.value =
         (\E k \in 1..Len(allowedDirectories) :
            EqualOrUnder(args.path, allowedDirectories[k]))
    /\ response.value =>
         /\ isAbsolute(args.path)
         /\ \E k \in 1..Len(allowedDirectories) :
              SegPrefix(Located(allowedDirectories[k]), Located(args.path))

\* a refused path that shares the string prefix "/a" with the root "/a"
C3_Witness ==
  /\ tool = "guard" /\ pc = "done"
  /\ allowedDirectories = << <<"/", "a">> >>
  /\ args.path = <<"/", "a", "b", "/", "a">>
  /\ response.value = FALSE

\* a refused path that leaves the root through '..'
C3_WitnessDotDot ==
  /\ tool = "guard" /\ pc = "done"
  /\ allowedDirectories = << <<"/", "a">> >>
  /\ args.path = <<"/", "a", "/", ".", ".">>
  /\ response.value = FALSE

(***************************************************************************)
(* handleSearch: the options built from the request arguments.             *)
(***************************************************************************)
\* a request that sets no argument
NoArgs ==
  [pattern |-> <<>>, searchPath |-> <<>>, extensions |-> <<>>,
   excludeExtensions |-> <<>>, excludePatterns |-> <<>>, regexMode |-> FALSE,
   caseSensitive |-> FALSE, wordBoundary |-> FALSE, multiline |-> FALSE,
   maxDepth |-> <<>>, followSymlinks |-> FALSE, includeBinary |-> FALSE,
   minSize |-> <<>>, maxSize |-> <<>>, modifiedAfter |-> <<>>,
   modifiedBefore |-> <<>>, snippetLength |-> <<>>, maxResults |-> <<>>,
   sortBy |-> "", groupByFile |-> <<>>, excludeComments |-> FALSE,
   excludeStrings |-> FALSE, outputFormat |-> ""]

DefaultPattern == <<".", "*">>

BuildOptions(a, dirs) ==
  [pattern |-> IF a.pattern = <<>> THEN DefaultPattern ELSE a.pattern,
   searchPath |-> IF a.searchPath # <<>> THEN a.searchPath
                  ELSE IF Len(dirs) > 0 THEN dirs[1] ELSE <<>>,
   extensions |-> a.extensions,
   excludeExtensions |-> a.excludeExtensions,
   excludePatterns |-> a.excludePatterns,
   regexMode |-> a.regexMode,
   caseSensitive |-> a.caseSensitive,
   wordBoundary |-> a.wordBoundary,
   multiline |-> a.multiline,
   maxDepth |-> a.maxDepth,
   followSymlinks |-> a.followSymlinks,
   includeBinary |-> a.includeBinary,
   minSize |-> a.minSize,
   maxSize |-> a.maxSize,
   modifiedAfter |-> a.modifiedAfter,
   modifiedBefore |-> a.modifiedBefore,
   sortBy |-> IF a.sortBy = "" THEN "relevance" ELSE a.sortBy,
   snippetLength |-> <<OrDefault(a.snippetLength, DefaultSnippetLength)>>,
   maxResults |-> <<OrDefault(a.maxResults, DefaultMaxResults)>>,
   groupByFile |-> IF a.groupByFile # <<>> THEN a.groupByFile[1] ELSE TRUE,
   excludeComments |-> a.excludeComments,
   excludeStrings |-> a.excludeStrings,
   outputFormat |-> IF a.outputFormat = "" THEN "text" ELSE a.outputFormat]

(***************************************************************************)
(* searchInFile, step by step: the read and the regex construction, then   *)
(* one action per iteration of the while loop, then the return.            *)
(***************************************************************************)
NUL == "NUL"

RECURSIVE SplitLinesAt(_, _, _)
SplitLinesAt(s, i, cur) ==
  IF i > Len(s) THEN <<cur>>
  ELSE IF s[i] = "\n" THEN <<cur>> \o SplitLinesAt(s, i + 1, <<>>)
  ELSE SplitLinesAt(s, i + 1, Append(cur, s[i]))

\* processedContent.split('\n')
SplitLines(s) == SplitLinesAt(s, 1, <<>>)

\* isBinaryContent: a null byte among the first 1024 bytes
BinaryProbe == 1024
isBinaryContent(content) ==
  \E i \in 1..Min(BinaryProbe, Len(content)) : content[i] = NUL

\* s.replace(/<marker>.*$/gm, ''): from every marker to the end of its line
RECURSIVE RemoveToEol(_, _)
RemoveToEol(s, marker) ==
  IF Len(s) = 0 THEN <<>>
  ELSE IF StartsWith(s, marker)
    THEN LET nl == {i \in 1..Len(s) : s[i] = "\n"} IN
           IF nl = {} THEN <<>>
           ELSE RemoveToEol(SubSeq(s, CHOOSE i \in nl : \A j \in nl : i <= j, Len(s)),
                            marker)
  ELSE <<Head(s)>> \o RemoveToEol(Tail(s), marker)

\* s.replace(/<open>[\s\S]*?<close>/g, ''): from every opener to the first
\* closer after it, line feeds included
RECURSIVE RemoveSpan(_, _, _)
RemoveSpan(s, open, close) ==
  IF Len(s) = 0 THEN <<>>
  ELSE LET ends == {i \in (Len(open) + 1)..(Len(s) - Len(close) + 1) :
                      SubSeq(s, i, i + Len(close) - 1) = close} IN
    IF StartsWith(s, open) /\ ends # {}
      THEN RemoveSpan(SubSeq(s, (CHOOSE i \in ends : \A j \in ends : i <= j)
                                  + Len(close), Len(s)),
                      open, close)
      ELSE <<Head(s)>> \o RemoveSpan(Tail(s), open, close)

\* the position of the quote q that closes (?:[^q\\]|\\.)* read from position
\* i of s, or 0 when there is none: a backslash takes the next character with
\* it unless that is a line feed
RECURSIVE QuotedEnd(_, _, _)
QuotedEnd(s, q, i) ==
  IF i > Len(s) THEN 0
  ELSE IF s[i] = q THEN i
  ELSE IF s[i] = "\\"
    THEN IF i + 1 <= Len(s) /\ s[i + 1] # "\n" THEN QuotedEnd(s, q, i + 2) ELSE 0
  ELSE QuotedEnd(s, q, i + 1)

\* s.replace(/q(?:[^q\\]|\\.)*q/g, 'qq'): every quoted string is emptied
RECURSIVE BlankQuoted(_, _)
BlankQuoted(s, q) ==
  IF Len(s) = 0 THEN <<>>
  ELSE IF Head(s) = q /\ QuotedEnd(s, q, 2) # 0
    THEN <<q, q>> \o BlankQuoted(SubSeq(s, QuotedEnd(s, q, 2) + 1, Len(s)), q)
  ELSE <<Head(s)>> \o BlankQuoted(Tail(s), q)

\* "backtick" stands for the backtick character, which a string of this
\* module cannot hold
preprocessContent(content, excludeComments, excludeStrings, fileExtension) ==
  LET slashes ==
        {<<".", "j", "s">>, <<".", "j", "s", "x">>, <<".", "t", "s">>,
         <<".", "t", "s", "x">>, <<".", "j", "a", "v", "a">>, <<".", "c">>,
         <<".", "c", "p", "p">>, <<".", "c", "s">>}
      uncommented ==
        IF ~excludeComments THEN content
        ELSE IF fileExtension \in slashes
          THEN RemoveSpan(RemoveToEol(content, <<"/", "/">>),
                          <<"/", "*">>, <<"*", "/">>)
        ELSE IF fileExtension = <<".", "p", "y">> THEN RemoveToEol(content, <<"#">>)
        ELSE IF fileExtension \in {<<".", "h", "t", "m", "l">>, <<".", "x", "m", "l">>}
          THEN RemoveSpan(content, <<"<", "!", "-", "-">>, <<"-", "-", ">">>)
        ELSE content
  IN IF ~excludeStrings THEN uncommented
     ELSE BlankQuoted(BlankQuoted(BlankQuoted(uncommented, "\""), "'"), "backtick")

\* the compiled regex of a request (its atoms), or a SyntaxError
Regex(opts) == RegExpCompile(PatternSource(opts))

\* the file handed to searchInFile: readable or not, and its content
ContentAlphabet == {"x", "a", "\n"}
PatternAlphabet == {"x", "*", "."}

\* requests that vary the pattern, the mode and the snippet radius
SnippetRequests ==
  {[NoArgs EXCEPT !.pattern = p, !.regexMode = rm, !.snippetLength = sl] :
     p \in StrUpTo(PatternAlphabet, MaxPatternLen), rm \in BOOLEAN,
     sl \in {<<>>} \cup {<<n>> : n \in 0..MaxSnippetArg}}

\* requests for whole words, on files whose lines hold several words
WordContentAlphabet == {"x", "a", " "}
WordPatternAlphabet == {"x", "a", "|"}
WordRequests ==
  {[NoArgs EXCEPT !.pattern = p, !.regexMode = rm, !.wordBoundary = TRUE] :
     p \in StrUpTo(WordPatternAlphabet, MaxPatternLen), rm \in BOOLEAN}

\* the word-boundary scenario: 'cat' on the line 'concatenate cat category'
CatLine == <<"c", "o", "n", "c", "a", "t", "e", "n", "a", "t", "e", " ",
             "c", "a", "t", " ",
             "c", "a", "t", "e", "g", "o", "r", "y">>
CatRequest == [NoArgs EXCEPT !.pattern = <<"c", "a", "t">>, !.wordBoundary = TRUE]

\* literal requests in both cases, on files in both cases
LiteralAlphabet == {"x", "X", "*"}
LiteralRequests ==
  {[NoArgs EXCEPT !.pattern = p, !.caseSensitive = cs] :
     p \in StrUpTo(LiteralAlphabet, MaxPatternLen) \ {<<>>}, cs \in BOOLEAN}

\* the literal scenario: 'TODO' on a file whose line 3 is '// TODO: fix this'
TodoFile == <<"a", "\n", "b", "\n", "/", "/", " ", "T", "O", "D", "O", ":", " ",
              "f", "i", "x", " ", "t", "h", "i", "s">>
TodoRequest == [NoArgs EXCEPT !.pattern = <<"T", "O", "D", "O">>]

\* searches of code with the strings or the comments left out
QuotedAlphabet == {"\"", "\n", "x"}
CommentAlphabet == {"/", "*", "\n", "x"}
BlockCommentFile == <<"x", "\n", "/", "*", "\n", "*", "/", "x">>
StringsRequest == [NoArgs EXCEPT !.pattern = <<"x">>, !.excludeStrings = TRUE]
CommentsRequest == [NoArgs EXCEPT !.pattern = <<"x">>, !.excludeComments = TRUE]

\* a file content together with the request run on it
MatchInputs ==
  (StrUpTo(ContentAlphabet, MaxContentLen) \X SnippetRequests)
    \cup (StrUpTo(WordContentAlphabet, MaxContentLen) \X WordRequests)
    \cup (StrUpTo(LiteralAlphabet, MaxContentLen) \X LiteralRequests)
    \cup (StrUpTo(QuotedAlphabet, MaxContentLen) \X {StringsRequest})
    \cup ((StrUpTo(CommentAlphabet, MaxContentLen) \cup {BlockCommentFile})
            \X {CommentsRequest})
    \cup {<<CatLine, CatRequest>>, <<TodoFile, TodoRequest>>}

InitMatch ==
  /\ allowedDirectories = << <<"/", "a">> >>
  /\ \E in \in MatchInputs, readable \in BOOLEAN :
       /\ fs = [readable |-> readable, content |-> in[1], ext |-> <<".", "j", "s">>]
       /\ fs0 = fs
       /\ args = in[2]
  /\ tool = "searchInFile" /\ pc = "read"
  /\ options = BuildOptions(args, allowedDirectories)
  /\ resolved = <<>> /\ stack = <<>> /\ results = <<>>
  /\ response = NoResponse /\ ioLog = <<>>
  /\ lines = <<>> /\ lineI = 0 /\ lastIndex = 0 /\ matches = <<>> /\ runs = 0
  /\ limitedResults = <<>> /\ previous = <<>> /\ other = <<>>

MatchFrame == <<allowedDirectories, fs, fs0, tool, args, options, resolved,
                stack, results, runs, limitedResults, previous, other>>

\* lines 198-204: the content the lines are taken from
Preprocessed ==
  preprocessContent(fs.content, options.excludeComments, options.excludeStrings,
                    fs.ext)

\* lines 189-224: read, binary check, split, regex construction
MatchRead ==
  /\ tool = "searchInFile" /\ pc = "read"
  /\ ioLog' = Append(ioLog, [op |-> "readFile", path |-> <<>>])
  /\ IF ~fs.readable
       THEN /\ response' = Result(<<>>) /\ pc' = "done" /\ lines' = lines
     ELSE IF ~options.includeBinary /\ isBinaryContent(fs.content)
       THEN /\ response' = Result(<<>>) /\ pc' = "done" /\ lines' = lines
     ELSE IF ~Regex(options).ok
       THEN /\ response' = Result(<<>>) /\ pc' = "done"
            /\ lines' = SplitLines(Preprocessed)
     ELSE /\ response' = response /\ pc' = "loop"
          /\ lines' = SplitLines(Preprocessed)
  /\ UNCHANGED <<lineI, lastIndex, matches>>
  /\ UNCHANGED MatchFrame

ExecNow ==
  RegExpExec(Regex(options).alts, ~options.caseSensitive, lines[lineI + 1], lastIndex)

\* lines 231-246: exec found a match
MatchExecHit ==
  /\ tool = "searchInFile" /\ pc = "loop" /\ lineI < Len(lines)
  /\ ExecNow.found
  /\ matches' = Append(matches,
                  MatchRecord(lines[lineI + 1], lineI, ExecNow, options.snippetLength))
  /\ lastIndex' = AdvanceLastIndex(ExecNow)
  /\ UNCHANGED <<pc, lines, lineI, response, ioLog>>
  /\ UNCHANGED MatchFrame

\* line 231 with exec returning null: the while loop ends, next line
MatchExecMiss ==
  /\ tool = "searchInFile" /\ pc = "loop" /\ lineI < Len(lines)
  /\ ~ExecNow.found
  /\ lastIndex' = ExecNow.lastIndex
  /\ lineI' = lineI + 1
  /\ UNCHANGED <<pc, lines, matches, response, ioLog>>
  /\ UNCHANGED MatchFrame

\* line 250
MatchReturn ==
  /\ tool = "searchInFile" /\ pc = "loop" /\ lineI >= Len(lines)
  /\ response' = Result(matches)
  /\ pc' = "done"
  /\ UNCHANGED <<lines, lineI, lastIndex, matches, ioLog>>
  /\ UNCHANGED MatchFrame

NextMatch == MatchRead \/ MatchExecHit \/ MatchExecMiss \/ MatchReturn

SpecMatch == InitMatch /\ [][NextMatch]_vars

\* the matches recorded so far on the line being scanned
OnLine(n) == SelectSeq(matches, LAMBDA m : m.lineNumber = n)

MatchLoopBounded ==
  (tool = "searchInFile" /\ pc = "loop" /\ lineI < Len(lines)) =>
    LET here == OnLine(lineI + 1) IN
      /\ \A j, k \in 1..Len(here) : j < k => here[j].matchStart < here[k].matchStart
      /\ \A j \in 1..Len(here) : here[j].matchStart <= Len(lines[lineI + 1])
      /\ Len(here) <= Len(lines[lineI + 1]) + 1
      /\ (Len(here) = 0 => lastIndex = 0)

\* every iteration of the scan moves forward: to a later position of the same
\* line, or to the next line with lastIndex back at 0, or to the return
LoopProgress ==
  (tool = "searchInFile" /\ pc = "loop") =>
    \/ pc' = "done"
    \/ lineI' = lineI /\ lastIndex' > lastIndex
                      /\ lastIndex' <= Len(lines[lineI + 1]) + 1
    \/ lineI' = lineI + 1 /\ lastIndex' = 0

\* C9: the per-line match loop terminates for every pattern, also one that
\* matches the empty string: every iteration strictly advances lastIndex
\* within a bound of line length + 1, a line yields at most one match per
\* character position plus the end-of-line position, and every line is
\* scanned from position 0.
C9_ZeroWidthTerminates ==
  /\ [](MatchLoopBounded)
  /\ [][LoopProgress]_vars

\* the pattern x* has matched the empty string on the second line of a file
C9_Witness ==
  /\ tool = "searchInFile" /\ pc = "done"
  /\ options.pattern = <<"x", "*">> /\ options.regexMode
  /\ \E j \in 1..Len(matches) :
       /\ matches[j].lineNumber = 2
       /\ matches[j].matchStart = 0
       /\ matches[j].matchEnd = 0
  /\ \E j \in 1..Len(matches) :
       matches[j].lineNumber = 1 /\ matches[j].matchEnd > matches[j].matchStart

\* C10: for every requested radius r >= 0 (r = 0 included) the snippet of a
\* match [s, e) on a line of length L is line[max(0, s-r) : min(L, e+r)].
C10_SnippetAsRequested ==
  (tool = "searchInFile" /\ args.snippetLength # <<>>) =>
    \A j \in 1..Len(matches) :
      LET m == matches[j]
          r == args.snippetLength[1]
      IN m.snippet = Substring(m.lineContent, Max(0, m.matchStart - r),
                               Min(Len(m.lineContent), m.matchEnd + r))

\* the occurrences of the text pat on line from position i on: the leftmost
\* one, then the leftmost one after its end, and so on
SameText(a, b, ignoreCase) ==
  IF ignoreCase THEN LowerStr(a) = LowerStr(b) ELSE a = b

RECURSIVE OccurrencesFrom(_, _, _, _)
OccurrencesFrom(line, pat, i, ignoreCase) ==
  IF i + Len(pat) > Len(line) THEN <<>>
  ELSE IF SameText(SubSeq(line, i + 1, i + Len(pat)), pat, ignoreCase)
    THEN << <<i, i + Len(pat)>> >>
         \o OccurrencesFrom(line, pat, i + Len(pat), ignoreCase)
    ELSE OccurrencesFrom(line, pat, i + 1, ignoreCase)

\* <<line number, start, end>> of every occurrence on the lines n.. of ls
RECURSIVE OccurrencesOn(_, _, _, _)
OccurrencesOn(ls, n, pat, ignoreCase) ==
  IF n > Len(ls) THEN <<>>
  ELSE LET occ == OccurrencesFrom(ls[n], pat, 0, ignoreCase) IN
         [j \in 1..Len(occ) |-> <<n, occ[j][1], occ[j][2]>>]
           \o OccurrencesOn(ls, n + 1, pat, ignoreCase)

LiteralSearchDone ==
  /\ tool = "searchInFile" /\ pc = "done" /\ fs.readable
  /\ ~options.regexMode /\ ~options.wordBoundary

\* C21: with regexMode = false the reported matches are exactly the leftmost
\* non-overlapping occurrences of the pattern text on every line of the
\* searched text, which is the file's text after the requested removal of
\* comments and strings (compared case-insensitively unless caseSensitive),
\* each with matchStart and matchEnd bracketing the occurrence and the
\* 1-based line number.
C21_LiteralOccurrences ==
  LiteralSearchDone =>
    [j \in 1..Len(matches) |->
       <<matches[j].lineNumber, matches[j].matchStart, matches[j].matchEnd>>]
      = OccurrencesOn(SplitLines(Preprocessed), 1, options.pattern,
                      ~options.caseSensitive)

\* 'TODO' was found once, on line 3, at [3, 7)
C21_Witness ==
  /\ LiteralSearchDone /\ fs.content = TodoFile
  /\ Len(matches) = 1 /\ matches[1].lineNumber = 3
  /\ matches[1].matchStart = 3 /\ matches[1].matchEnd = 7

\* a pattern of metacharacters was found as text, in the other case
C21_WitnessMeta ==
  /\ LiteralSearchDone /\ options.pattern = <<"*", "x">>
  /\ fs.content = <<"*", "X", "*", "x">> /\ Len(matches) = 2

\* position pos of line lies inside a run of word characters: the characters
\* before and after it are both word characters
InsideWordRun(line, pos) ==
  /\ pos >= 1 /\ pos < Len(line)
  /\ line[pos] \in WordChars /\ line[pos + 1] \in WordChars

\* the scenario of the word-boundary search: one match, the standalone word
CatScenario ==
  (fs.content = CatLine /\ fs.readable) =>
    /\ Len(matches) = 1
    /\ matches[1].matchStart = 12 /\ matches[1].matchEnd = 15

\* C20: with wordBoundary = true, 'cat' on the line 'concatenate cat
\* category' yields exactly one match, the standalone word, and no reported
\* match of any pattern starts or ends inside a run of word characters that
\* extends beyond the match.
C20_WholeWordsOnly ==
  (tool = "searchInFile" /\ pc = "done" /\ options.wordBoundary) =>
    /\ CatScenario
    /\ \A j \in 1..Len(matches) :
         /\ ~InsideWordRun(matches[j].lineContent, matches[j].matchStart)
         /\ ~InsideWordRun(matches[j].lineContent, matches[j].matchEnd)

\* the lines of the file as it is on disk
OriginalLines == SplitLines(fs.content)

\* the text the record m reports as matched
MatchedText(m) == SubSeq(m.lineContent, m.matchStart + 1, m.matchEnd)

\* C29: the lineNumber of every match record is the 1-based index of the
\* matched line in the original file content, also with excludeComments or
\* excludeStrings: preprocessing removes no line feed, and the matched text
\* stands on the line of the file that the record names.
C29_LineNumbersOfOriginal ==
  (tool = "searchInFile" /\ pc = "done" /\ fs.readable) =>
    /\ Len(SplitLines(Preprocessed)) = Len(OriginalLines)
    /\ \A j \in 1..Len(matches) :
         /\ matches[j].lineNumber \in 1..Len(OriginalLines)
         /\ Contains(LowerStr(OriginalLines[matches[j].lineNumber]),
                     LowerStr(MatchedText(matches[j])))

(***************************************************************************)
(* The filesystem.  fs maps an absolute path to its node: a directory, a   *)
(* file (with size, mtime and content) or a symbolic link (with the path   *)
(* it points to).  A node that is not readable fails every readdir or      *)
(* readFile with EACCES.                                                   *)
(***************************************************************************)
Dir(readable) == [kind |-> "dir", readable |-> readable, size |-> 0, mtime |-> 0,
                  content |-> <<>>, target |-> <<>>]
File(content, mtime, readable) ==
  [kind |-> "file", readable |-> readable, size |-> Len(content), mtime |-> mtime,
   content |-> content, target |-> <<>>]
Link(target) == [kind |-> "symlink", readable |-> TRUE, size |-> 0, mtime |-> 0,
                 content |-> <<>>, target |-> target]

Exists(f, p) == p \in DOMAIN f

\* the node a path leads to, following symbolic links at every component;
\* <<>> when the path does not lead anywhere
RECURSIVE RealAt(_, _, _, _)
RealAt(f, segs, i, cur) ==
  IF i > Len(segs) THEN cur
  ELSE LET next == (IF cur = <<"/">> THEN <<"/">> ELSE cur \o <<"/">>) \o segs[i] IN
    IF ~Exists(f, next) THEN <<>>
    ELSE IF f[next].kind = "symlink"
      THEN (IF Exists(f, f[next].target)
              THEN RealAt(f, segs, i + 1, f[next].target) ELSE <<>>)
      ELSE RealAt(f, segs, i + 1, next)

RealPath(f, p) == RealAt(f, Segs(p), 1, <<"/">>)

\* the directory holding the last component, links followed, and the node of
\* the last component itself (the link, not what it points to)
LPath(f, p) ==
  LET ss == Segs(p) IN
    IF Len(ss) = 0 THEN <<"/">>
    ELSE LET parent == RealAt(f, SubSeq(ss, 1, Len(ss) - 1), 1, <<"/">>)
             self   == (IF parent = <<"/">> THEN <<"/">> ELSE parent \o <<"/">>)
                       \o ss[Len(ss)]
         IN IF parent = <<>> \/ ~Exists(f, self) THEN <<>> ELSE self

Children(f, d) == {p \in DOMAIN f : p # d /\ Len(Segs(p)) > 0 /\ dirname(p) = d}

\* the order in which readdir lists names: by character code
CharOrder == <<"\n", " ", "#", "*", ".", "/", "?", "A", "X", "\\", "_", "a", "b",
               "c", "d", "e", "f", "g", "h", "i", "j", "k", "l", "m", "n", "o", "p",
               "q", "r", "s", "t", "u", "v", "w", "x", "y", "z", "|">>
CharRank(c) == CHOOSE i \in 1..Len(CharOrder) : CharOrder[i] = c

RECURSIVE StrLess(_, _)
StrLess(a, b) ==
  IF Len(b) = 0 THEN FALSE
  ELSE IF Len(a) = 0 THEN TRUE
  ELSE IF Head(a) = Head(b) THEN StrLess(Tail(a), Tail(b))
  ELSE CharRank(Head(a)) < CharRank(Head(b))

RECURSIVE SortedSeq(_)
SortedSeq(S) ==
  IF S = {} THEN <<>>
  ELSE LET m == CHOOSE x \in S : \A y \in S : y = x \/ StrLess(x, y)
       IN <<m>> \o SortedSeq(S \ {m})

\* fs.promises.readdir(dirPath, {withFileTypes: true}): the names of the
\* entries, or a failure (ENOENT, ENOTDIR, EACCES)
ReadDir(f, dirPath) ==
  LET real == RealPath(f, dirPath) IN
    IF real = <<>> \/ f[real].kind # "dir" \/ ~f[real].readable
      THEN [ok |-> FALSE, entries |-> <<>>]
      ELSE [ok |-> TRUE,
            entries |-> SortedSeq({basename(c) : c \in Children(f, real)})]

\* the Dirent type of an entry: the type of the entry itself
DirentKind(f, entryPath) == f[LPath(f, entryPath)].kind

\* fs.promises.stat(p): follows links; fails when the path leads nowhere
Stat(f, p) ==
  LET real == RealPath(f, p) IN
    IF real = <<>> THEN [ok |-> FALSE, isDirectory |-> FALSE, size |-> 0, mtime |-> 0]
    ELSE [ok |-> TRUE, isDirectory |-> f[real].kind = "dir",
          size |-> f[real].size, mtime |-> f[real].mtime]

\* fs.promises.readFile(p): the content, or a failure (EISDIR, EACCES, ENOENT)
ReadFile(f, p) ==
  LET real == RealPath(f, p) IN
    IF real = <<>> \/ f[real].kind # "file" \/ ~f[real].readable
      THEN [ok |-> FALSE, content |-> <<>>]
      ELSE [ok |-> TRUE, content |-> f[real].content]

(***************************************************************************)
(* The filters of the walk.                                                *)
(***************************************************************************)
\* the names of DEFAULT_EXCLUDED_DIRS
GIT == <<".", "g", "i", "t">>
NODE_MODULES == <<"n", "o", "d", "e", "_", "m", "o", "d", "u", "l", "e", "s">>
NEXT == <<".", "n", "e", "x", "t">>
DIST == <<"d", "i", "s", "t">>
BUILD == <<"b", "u", "i", "l", "d">>
EXPORT == <<"#", "e", "x", "p", "o", "r", "t">>

DEFAULT_EXCLUDED_DIRS ==
  {GIT, NODE_MODULES, NEXT, DIST, BUILD, EXPORT}

\* the glob of an exclude pattern as a regex source: * -> .*, ? -> .
RECURSIVE GlobSource(_)
GlobSource(pat) ==
  IF Len(pat) = 0 THEN <<>>
  ELSE (IF Head(pat) = "*" THEN <<".", "*">>
        ELSE IF Head(pat) = "?" THEN <<".">>
        ELSE <<Head(pat)>>) \o GlobSource(Tail(pat))

\* new RegExp(source, 'i').test(s): the regex matches somewhere in s
RegExpTest(src, s) ==
  LET re == RegExpCompile(src) IN
    re.ok /\ \E i \in 0..Len(s) : MatchAny(re.alts, s, i, TRUE) # -1

shouldExcludePath(pathToCheck, excludePatterns) ==
  LET base == basename(pathToCheck) IN
    \/ base \in DEFAULT_EXCLUDED_DIRS
    \/ \E k \in 1..Len(excludePatterns) :
         LET pat == excludePatterns[k] IN
           IF (\E i \in 1..Len(pat) : pat[i] = "*" \/ pat[i] = "?")
             THEN RegExpTest(GlobSource(pat), base)
             ELSE Contains(base, pat)

\* mtime and the two dates are numbers (milliseconds); an absent date is <<>>
matchesDate(mtime, modifiedAfter, modifiedBefore) ==
  /\ ~(modifiedAfter # <<>> /\ mtime < modifiedAfter[1])
  /\ ~(modifiedBefore # <<>> /\ mtime > modifiedBefore[1])

matchesSize(fileSize, minSize, maxSize) ==
  /\ ~(minSize # <<>> /\ fileSize < minSize[1])
  /\ ~(maxSize # <<>> /\ fileSize > maxSize[1])

\* path.extname(p): from the last '.' of the base name, unless the name
\* starts with that dot
extname(p) ==
  LET base == basename(p)
      dots == {i \in 1..Len(base) : base[i] = "."}
  IN IF dots = {} THEN <<>>
     ELSE LET d == CHOOSE i \in dots : \A j \in dots : j <= i
          IN IF d = 1 THEN <<>> ELSE SubSeq(base, d, Len(base))

\* the include list consulted first, the exclude list only without one
matchesExtension_IncludeFirst(filePath, extensions, excludeExtensions) ==
  LET ext == LowerStr(extname(filePath))
      rest == IF Len(ext) = 0 THEN <<>> ELSE Tail(ext)
  IN IF Len(extensions) > 0
       THEN \E k \in 1..Len(extensions) :
              \/ LowerStr(extensions[k]) = ext
              \/ LowerStr(extensions[k]) = <<".">> \o rest
     ELSE ~\E k \in 1..Len(excludeExtensions) :
              \/ LowerStr(excludeExtensions[k]) = ext
              \/ LowerStr(excludeExtensions[k]) = rest

matchesExtension(filePath, extensions, excludeExtensions) ==
  LET ext == LowerStr(extname(filePath))
      rest == IF Len(ext) = 0 THEN <<>> ELSE Tail(ext)
  IN IF \E k \in 1..Len(excludeExtensions) :
          \/ LowerStr(excludeExtensions[k]) = ext
          \/ LowerStr(excludeExtensions[k]) = rest
       THEN FALSE
     ELSE IF Len(extensions) > 0
       THEN \E k \in 1..Len(extensions) :
              \/ LowerStr(extensions[k]) = ext
              \/ LowerStr(extensions[k]) = <<".">> \o rest
     ELSE TRUE

(***************************************************************************)
(* searchInFile as a function of the file: the matches it returns.         *)
(***************************************************************************)
RECURSIVE ScanLine(_, _, _, _)
ScanLine(opts, line, i, li) ==
  LET m == RegExpExec(Regex(opts).alts, ~opts.caseSensitive, line, li) IN
    IF ~m.found THEN <<>>
    ELSE <<MatchRecord(line, i, m, opts.snippetLength)>>
         \o ScanLine(opts, line, i, AdvanceLastIndex(m))

RECURSIVE ScanLines(_, _, _)
ScanLines(opts, ls, i) ==
  IF i >= Len(ls) THEN <<>>
  ELSE ScanLine(opts, ls[i + 1], i, 0) \o ScanLines(opts, ls, i + 1)

searchInFile(f, filePath, opts) ==
  LET rd == ReadFile(f, filePath) IN
    IF ~rd.ok THEN <<>>
    ELSE IF ~opts.includeBinary /\ isBinaryContent(rd.content) THEN <<>>
    ELSE IF ~Regex(opts).ok THEN <<>>
    ELSE ScanLines(opts,
                   SplitLines(preprocessContent(rd.content, opts.excludeComments,
                                                opts.excludeStrings,
                                                LowerStr(extname(filePath)))),
                   0)

(***************************************************************************)
(* sortResults: Array.prototype.sort is stable; the comparator decides.    *)
(***************************************************************************)
\* path.relative(from, to) for a path to at or below from
relative(from, to) ==
  LET a == Located(from)
      b == Located(to)
  IN JoinSegs(SubSeq(b, Len(a) + 1, Len(b)))

\* the comparator with sizes compared the other way round
Before_SizeAscending(sortBy, a, b) ==
  IF sortBy = "file" THEN StrLess(a.relativePath, b.relativePath)
  ELSE IF sortBy = "lineNumber" THEN a.matches[1].lineNumber < b.matches[1].lineNumber
  ELSE IF sortBy = "modified" THEN a.lastModified > b.lastModified
  ELSE IF sortBy = "size" THEN a.fileSize < b.fileSize
  ELSE Len(a.matches) > Len(b.matches)

\* a sorts strictly before b under the comparator of sortBy
Before(sortBy, a, b) ==
  IF sortBy = "file" THEN StrLess(a.relativePath, b.relativePath)
  ELSE IF sortBy = "lineNumber" THEN a.matches[1].lineNumber < b.matches[1].lineNumber
  ELSE IF sortBy = "modified" THEN a.lastModified > b.lastModified
  ELSE IF sortBy = "size" THEN a.fileSize > b.fileSize
  ELSE Len(a.matches) > Len(b.matches)

RECURSIVE InsertSorted(_, _, _)
InsertSorted(sortBy, sorted, r) ==
  IF Len(sorted) = 0 THEN <<r>>
  ELSE IF Before(sortBy, r, Head(sorted)) THEN <<r>> \o sorted
  ELSE <<Head(sorted)>> \o InsertSorted(sortBy, Tail(sorted), r)

RECURSIVE sortResults(_, _)
sortResults(rs, sortBy) ==
  IF Len(rs) = 0 THEN <<>>
  ELSE InsertSorted(sortBy, sortResults(SubSeq(rs, 1, Len(rs) - 1), sortBy), rs[Len(rs)])

\* results.slice(0, n)
Slice(rs, n) == SubSeq(rs, 1, Min(n, Len(rs)))

(***************************************************************************)
(* formatResults.  The output is the JSON array of the file results, or    *)
(* the lines of the text report; a line is a record of its kind and of the *)
(* values printed on it.                                                   *)
(***************************************************************************)
Line(kind, path, n, text) == [kind |-> kind, path |-> path, n |-> n, text |-> text]

JsonOutput(rs) == [format |-> "json", entries |-> rs, lines |-> <<>>]
TextOutput(ls) == [format |-> "text", entries |-> <<>>, lines |-> ls]

\* result.matches.slice(0, 10) of the grouped report
MaxShownPerFile == 10

\* lines 367-381: the block of one file in the grouped report
GroupedBlock(r) ==
  LET shown == Slice(r.matches, MaxShownPerFile) IN
    <<Line("file", r.relativePath, 0, <<>>),
      Line("meta", <<>>, r.fileSize, <<r.lastModified>>),
      Line("count", <<>>, Len(r.matches), <<>>)>>
    \o [k \in 1..Len(shown) |->
          Line("match", <<>>, shown[k].lineNumber, shown[k].snippet)]
    \o (IF Len(r.matches) > MaxShownPerFile
          THEN <<Line("more", <<>>, Len(r.matches) - MaxShownPerFile, <<>>)>>
          ELSE <<>>)
    \o <<Line("blank", <<>>, 0, <<>>)>>

RECURSIVE GroupedLines(_)
GroupedLines(rs) ==
  IF Len(rs) = 0 THEN <<>> ELSE GroupedBlock(Head(rs)) \o GroupedLines(Tail(rs))

\* every match of every file, in the order of the two nested loops
RECURSIVE FlatMatches(_)
FlatMatches(rs) ==
  IF Len(rs) = 0 THEN <<>>
  ELSE [k \in 1..Len(Head(rs).matches) |->
          Line("match", Head(rs).relativePath, Head(rs).matches[k].lineNumber,
               Head(rs).matches[k].snippet)]
       \o FlatMatches(Tail(rs))

\* lines 384-396: the flat list stops at maxResults || 100 matches and then
\* says so
FlatLines(rs, maxResults) ==
  LET cap  == OrDefault(maxResults, DefaultMaxResults)
      all  == FlatMatches(rs)
      out  == Slice(all, cap)
  IN out \o (IF Len(out) >= cap THEN <<Line("truncated", <<>>, cap, <<>>)>> ELSE <<>>)

formatResults(rs, opts) ==
  IF opts.outputFormat = "json" THEN JsonOutput(rs)
  ELSE IF Len(rs) = 0 THEN TextOutput(<<Line("none", <<>>, 0, opts.pattern)>>)
  ELSE TextOutput(<<Line("title", <<>>, 0, opts.pattern),
                    Line("found", <<>>, Len(rs), <<>>)>>
                  \o (IF opts.groupByFile THEN GroupedLines(rs)
                      ELSE FlatLines(rs, opts.maxResults)))

(***************************************************************************)
(* handleSearch and searchDirectory, step by step.  The recursion of       *)
(* searchDirectory is a stack of frames, one per directory being listed;   *)
(* every await (stat, readdir, the stat and read of one entry) is a step,  *)
(* and ioLog records the filesystem calls issued for the request.          *)
(***************************************************************************)
Frame(dirPath, depth) ==
  [dirPath |-> dirPath, depth |-> depth, opened |-> FALSE, entries |-> <<>>]

Io(op, path) == [op |-> op, path |-> path]

IsBlank(s) == \A i \in 1..Len(s) : s[i] = " "

\* a tree with files at three depths, an excluded directory, links that
\* leave the tree, a link that leads nowhere, an unreadable directory and an
\* unreadable file
SearchFs ==
  (<<"/">> :> Dir(TRUE))
  @@ (<<"/", "a">> :> Dir(TRUE))
  @@ (<<"/", "a", "/", "x">> :> File(<<"x">>, 3, TRUE))
  @@ (<<"/", "a", "/", "b">> :> Dir(TRUE))
  @@ (<<"/", "a", "/", "b", "/", "x">> :> File(<<"a", "x", "\n", "x">>, 2, TRUE))
  @@ (<<"/", "a", "/", "b", "/", "b">> :> Dir(TRUE))
  @@ (<<"/", "a", "/", "b", "/", "b", "/", "x">> :> File(<<"x">>, 1, TRUE))
  @@ (<<"/", "a", "/", "d", "i", "s", "t">> :> Dir(TRUE))
  @@ (<<"/", "a", "/", "d", "i", "s", "t", "/", "x">> :> File(<<"x">>, 1, TRUE))
  @@ (<<"/", "a", "/", "l">> :> Link(<<"/", "a", "b", "/", "x">>))
  @@ (<<"/", "a", "/", "d">> :> Link(<<"/", "a", "b">>))
  @@ (<<"/", "a", "/", "u">> :> Dir(FALSE))
  @@ (<<"/", "a", "/", "u", "/", "x">> :> File(<<"x">>, 1, TRUE))
  @@ (<<"/", "a", "/", "n">> :> File(<<"x">>, 1, FALSE))
  @@ (<<"/", "a", "/", "y">> :> File(<<"a", "\n", "x">>, 3, TRUE))
  @@ (<<"/", "a", "/", "k">> :> Link(<<"/", "z", "z">>))
  @@ (<<"/", "a", "b">> :> Dir(TRUE))
  @@ (<<"/", "a", "b", "/", "x">> :> File(<<"x", "x">>, 4, TRUE))

SearchPathArgs == {<<>>, <<"/", "a">>,
                   <<"/", "a", "/", "b">>,
                   <<"/", "a", "b">>,
                   <<"/", "a", "/", ".", ".", "/", "a", "b">>,
                   <<"/", "a", "/", "b", "/", ".", ".">>,
                   <<"/", "a", "/", "x">>,
                   <<"/", "a", "/", "z", "z">>,
                   <<" ">>,
                   <<"/", "a", "/", "d">>,
                   <<"a">>}

SearchRoots == {<< <<"/", "a">> >>, << <<"/", "a", "/", "b">> >>,
                << <<"/", "a", "/", "b">>, <<"/", "a">> >>}

\* requests that vary where and how deep the walk goes
WalkRequests ==
  {[NoArgs EXCEPT !.pattern = <<"x">>, !.searchPath = sp,
                  !.followSymlinks = fl, !.maxDepth = md, !.minSize = ms] :
     sp \in SearchPathArgs, fl \in BOOLEAN,
     md \in {<<>>} \cup {<<n>> : n \in 0..MaxDepthArg},
     ms \in {<<>>, <<2>>}}

SortKeys == {"", "relevance", "file", "lineNumber", "modified", "size", "name"}

\* requests that vary the order, the cap and the format of the report
ReportRequests ==
  {[NoArgs EXCEPT !.pattern = <<"x">>, !.searchPath = sp, !.followSymlinks = fl,
                  !.maxResults = mr, !.groupByFile = gb, !.outputFormat = fmt,
                  !.sortBy = sb] :
     sp \in {<<"/", "a">>, <<"/", "a", "/", "b">>}, fl \in BOOLEAN,
     mr \in {<<>>} \cup {<<n>> : n \in 0..MaxResultsArg},
     gb \in {<<>>, <<TRUE>>, <<FALSE>>}, fmt \in {"", "json"},
     sb \in SortKeys}

SearchPatterns == {<<>>, <<"x">>, <<"a">>, <<"*">>, <<"x", "*">>, <<".", "*">>}

\* requests that vary the pattern
PatternRequests ==
  {[NoArgs EXCEPT !.pattern = p, !.regexMode = rm, !.searchPath = <<"/", "a">>,
                  !.groupByFile = <<FALSE>>] :
     p \in SearchPatterns, rm \in BOOLEAN}

InitSearch ==
  /\ allowedDirectories \in SearchRoots
  /\ fs = SearchFs /\ fs0 = SearchFs
  /\ tool = "search_files" /\ pc = "begin"
  /\ args \in WalkRequests \cup ReportRequests \cup PatternRequests
  /\ Quiet

SearchFrame == <<allowedDirectories, fs, fs0, tool, args, resolved,
                 lines, lineI, lastIndex, matches>>

\* the guard of handleSearch (line 576)
SearchGuard_Skipped(searchPath, dirs) == TRUE

SearchGuard(searchPath, dirs) == isPathAllowed(searchPath, dirs)

\* lines 526-581: options, validation of searchPath, the allowed check
SearchBegin ==
  /\ tool = "search_files" /\ pc = "begin"
  /\ LET o == BuildOptions(args, allowedDirectories)
         n == [o EXCEPT !.searchPath = normalize(o.searchPath)]
     IN IF o.searchPath = <<>>
          THEN /\ options' = o /\ pc' = "done"
               /\ response' = Error("InvalidRequest", "no search path")
        ELSE IF IsBlank(o.searchPath)
          THEN /\ options' = o /\ pc' = "done"
               /\ response' = Error("InvalidRequest", "empty search path")
        ELSE IF ~SearchGuard(n.searchPath, allowedDirectories)
          THEN /\ options' = n /\ pc' = "done"
               /\ response' = Error("InvalidRequest", "access denied")
        ELSE /\ options' = n /\ pc' = "stat" /\ response' = response
  /\ UNCHANGED <<stack, results, ioLog>>
  /\ UNCHANGED <<runs, limitedResults, previous, other>>
  /\ UNCHANGED SearchFrame

\* one list of results kept by the module and shared by every call
NewResults_Shared(old) == old

\* line 264: every call of searchDirectory starts from a list of its own
NewResults(old) == <<>>

\* lines 583-597: the search path exists and is a directory
SearchStat ==
  /\ tool = "search_files" /\ pc = "stat"
  /\ ioLog' = Append(ioLog, Io("stat", options.searchPath))
  /\ LET st == Stat(fs, options.searchPath) IN
       IF ~st.ok \/ ~st.isDirectory
         THEN /\ pc' = "done" /\ stack' = stack /\ results' = results
              /\ response' = Error("InvalidRequest", "not accessible")
         ELSE /\ pc' = "walk" /\ stack' = <<Frame(options.searchPath, 0)>>
              /\ results' = NewResults(results)
              /\ response' = response
  /\ UNCHANGED options
  /\ UNCHANGED <<runs, limitedResults, previous, other>>
  /\ UNCHANGED SearchFrame

Top == stack[Len(stack)]
Pop == SubSeq(stack, 1, Len(stack) - 1)

\* line 266: the depth test of searchDirectory
DepthExceeded_OffByOne(maxDepth, currentDepth) ==
  maxDepth # <<>> /\ currentDepth > maxDepth[1] + 1

DepthExceeded(maxDepth, currentDepth) ==
  maxDepth # <<>> /\ currentDepth > maxDepth[1]

\* the whole walk is given up when a directory cannot be listed
AfterListFailure_AbortWalk(st) == <<>>

\* lines 325-329: a failed readdir is logged and searchDirectory returns what
\* it has, to the loop of the directory above
AfterListFailure(st) == SubSeq(st, 1, Len(st) - 1)

\* lines 266-271 and 325-327: enter a directory, list it
WalkOpen ==
  /\ tool = "search_files" /\ pc = "walk" /\ Len(stack) > 0 /\ ~Top.opened
  /\ IF DepthExceeded(options.maxDepth, Top.depth)
       THEN /\ stack' = Pop /\ ioLog' = ioLog
       ELSE /\ ioLog' = Append(ioLog, Io("readdir", Top.dirPath))
            /\ LET rd == ReadDir(fs, Top.dirPath) IN
                 IF ~rd.ok THEN stack' = AfterListFailure(stack)
                 ELSE stack' = [stack EXCEPT ![Len(stack)] =
                                  [Top EXCEPT !.opened = TRUE, !.entries = rd.entries]]
  /\ UNCHANGED <<options, results, response, pc>>
  /\ UNCHANGED <<runs, limitedResults, previous, other>>
  /\ UNCHANGED SearchFrame

\* the entry path with links resolved to what they point to
EntryPath_Resolved(dirPath, name) ==
  LET p == join(dirPath, name) IN
    IF RealPath(fs, p) # <<>> THEN RealPath(fs, p) ELSE p

\* line 274: the path of an entry
EntryPath(dirPath, name) == join(dirPath, name)

\* the record pushed for a file with matches (lines 308-318)
FileResult(entryPath, st, ms) ==
  [filePath |-> entryPath,
   relativePath |-> IF options.searchPath # <<>>
                      THEN relative(options.searchPath, entryPath) ELSE entryPath,
   matches |-> ms, fileSize |-> st.size, lastModified |-> st.mtime,
   fileExtension |-> LowerStr(extname(entryPath))]

\* a file result is pushed for every searched file, with or without matches
KeepResult_Always(ms) == TRUE

\* line 307: a file result is pushed only for a file with a match
KeepResult(ms) == Len(ms) > 0

\* lines 273-323: one iteration of the loop over the entries
WalkEntry ==
  /\ tool = "search_files" /\ pc = "walk" /\ Len(stack) > 0
  /\ Top.opened /\ Len(Top.entries) > 0
  /\ LET name      == Head(Top.entries)
         entryPath == EntryPath(Top.dirPath, name)
         rest      == [stack EXCEPT ![Len(stack)] = [Top EXCEPT !.entries = Tail(Top.entries)]]
         kind      == DirentKind(fs, entryPath)
         st        == Stat(fs, entryPath)
         ms        == searchInFile(fs, entryPath, options)
     IN IF shouldExcludePath(entryPath, options.excludePatterns)
          THEN /\ stack' = rest /\ UNCHANGED <<results, ioLog>>
        ELSE IF kind = "dir"
          THEN /\ stack' = Append(rest, Frame(entryPath, Top.depth + 1))
               /\ UNCHANGED <<results, ioLog>>
        ELSE IF kind = "file" \/ (kind = "symlink" /\ options.followSymlinks)
          THEN /\ stack' = rest
               /\ IF ~st.ok
                    THEN /\ ioLog' = Append(ioLog, Io("stat", entryPath))
                         /\ results' = results
                  ELSE IF \/ ~matchesSize(st.size, options.minSize, options.maxSize)
                          \/ ~matchesDate(st.mtime, options.modifiedAfter,
                                          options.modifiedBefore)
                          \/ ~matchesExtension(entryPath, options.extensions,
                                               options.excludeExtensions)
                    THEN /\ ioLog' = Append(ioLog, Io("stat", entryPath))
                         /\ results' = results
                  ELSE /\ ioLog' = ioLog \o <<Io("stat", entryPath),
                                              Io("readFile", entryPath)>>
                       /\ results' = IF KeepResult(ms)
                                       THEN Append(results, FileResult(entryPath, st, ms))
                                       ELSE results
        ELSE /\ stack' = rest /\ UNCHANGED <<results, ioLog>>
  /\ UNCHANGED <<options, response, pc>>
  /\ UNCHANGED <<runs, limitedResults, previous, other>>
  /\ UNCHANGED SearchFrame

\* line 329: the loop over the entries is over, searchDirectory returns
WalkClose ==
  /\ tool = "search_files" /\ pc = "walk" /\ Len(stack) > 0
  /\ Top.opened /\ Len(Top.entries) = 0
  /\ stack' = Pop
  /\ UNCHANGED <<options, results, response, pc, ioLog>>
  /\ UNCHANGED <<runs, limitedResults, previous, other>>
  /\ UNCHANGED SearchFrame

\* lines 605-616: sort, cap, format, respond
SearchFinish ==
  /\ tool = "search_files" /\ pc = "walk" /\ Len(stack) = 0
  /\ LET sortedResults == sortResults(results, options.sortBy)
         limited       == Slice(sortedResults, options.maxResults[1])
     IN /\ limitedResults' = limited
        /\ response' = Result(formatResults(limited, options))
  /\ pc' = "done"
  /\ UNCHANGED <<options, results, stack, ioLog, runs, previous, other>>
  /\ UNCHANGED SearchFrame

\* the same request is sent again, over the same filesystem; previous keeps
\* the answer to the request before, and the locals of the handler hold what
\* the call before left in them until the new call sets them
SearchAgain ==
  /\ tool = "search_files" /\ pc = "done" /\ runs + 1 < MaxRuns
  /\ previous' = response
  /\ runs' = runs + 1
  /\ pc' = "begin"
  /\ options' = <<>> /\ stack' = <<>>
  /\ response' = NoResponse /\ ioLog' = <<>>
  /\ UNCHANGED <<results, limitedResults, other>>
  /\ UNCHANGED SearchFrame

NextSearch ==
  \/ SearchBegin \/ SearchStat \/ WalkOpen \/ WalkEntry \/ WalkClose
  \/ SearchFinish \/ SearchAgain

SpecSearch == InitSearch /\ [][NextSearch]_vars

(***************************************************************************)
(* Two search requests in one process.  The running request's state is in  *)
(* the variables of the search; other is the state of the request that is  *)
(* suspended at an await.  Each request first runs alone (runs counts the   *)
(* finished solo runs, and previous keeps the response of the solo run),    *)
(* then both are started again and interleaved.                            *)
(***************************************************************************)
PairRequests ==
  {[NoArgs EXCEPT !.pattern = p, !.searchPath = sp, !.sortBy = sb,
                  !.groupByFile = <<FALSE>>] :
     p \in {<<"x">>, <<"a">>},
     sp \in {<<"/", "a">>, <<"/", "a", "/", "b">>, <<"/", "z">>},
     sb \in {"", "size"}}

\* what a call of handleSearch owns: its arguments, its options, its
\* position, the frames of its walk, its result lists and its response
RequestLocal ==
  [args |-> args, options |-> options, resolved |-> resolved, stack |-> stack,
   results |-> results, response |-> response, ioLog |-> ioLog, pc |-> pc,
   limitedResults |-> limitedResults, previous |-> previous]

\* a call that has not started
Fresh(a, solo) ==
  [args |-> a, options |-> <<>>, resolved |-> <<>>, stack |-> <<>>,
   results |-> <<>>, response |-> NoResponse, ioLog |-> <<>>, pc |-> "begin",
   limitedResults |-> <<>>, previous |-> solo]

\* one result list kept by the module: a resumed call sees the list as the
\* call that ran last left it
OwnResults_ModuleLevel(req) == results

\* line 264: the result list is a local of the call
OwnResults(req) == req.results

\* the suspended call continues after its await
Resume(req) ==
  /\ args' = req.args /\ options' = req.options /\ resolved' = req.resolved
  /\ stack' = req.stack /\ results' = OwnResults(req)
  /\ response' = req.response /\ ioLog' = req.ioLog /\ pc' = req.pc
  /\ limitedResults' = req.limitedResults /\ previous' = req.previous

PairFrame == <<allowedDirectories, fs, fs0, tool, lines, lineI, lastIndex, matches>>

InitPair ==
  /\ allowedDirectories = << <<"/", "a">> >>
  /\ fs = SearchFs /\ fs0 = SearchFs
  /\ tool = "search_files" /\ pc = "begin"
  /\ \E a, b \in PairRequests : args = a /\ other = Fresh(b, <<>>)
  /\ options = <<>> /\ resolved = <<>> /\ stack = <<>> /\ results = <<>>
  /\ response = NoResponse /\ ioLog = <<>>
  /\ lines = <<>> /\ lineI = 0 /\ lastIndex = 0 /\ matches = <<>> /\ runs = 0
  /\ limitedResults = <<>> /\ previous = <<>>

\* a request has run alone: its response is kept, and the other request runs
PairAlone ==
  /\ tool = "search_files" /\ pc = "done" /\ runs < 2
  /\ runs' = runs + 1
  /\ other' = Fresh(args, response)
  /\ Resume(other)
  /\ UNCHANGED PairFrame

\* the running request is suspended at an await and the other one continues
Switch ==
  /\ tool = "search_files" /\ runs = 2 /\ other.pc # "done"
  /\ other' = RequestLocal
  /\ Resume(other)
  /\ UNCHANGED runs
  /\ UNCHANGED PairFrame

NextPair ==
  \/ SearchBegin \/ SearchStat \/ WalkOpen \/ WalkEntry \/ WalkClose
  \/ SearchFinish \/ PairAlone \/ Switch

SpecPair == InitPair /\ [][NextPair]_vars

\* both requests were started again and every finished one has the response
\* of its solo run
SameAsAlone ==
  (tool = "search_files" /\ runs = 2) =>
    /\ pc = "done" => response = previous
    /\ other.pc = "done" => other.response = other.previous

\* C24: two search requests interleaved at their awaits over an unchanged
\* filesystem each return the output of their solo run, and no step of a
\* request changes the allowed-directories list.
C24_NoInterference ==
  /\ []SameAsAlone
  /\ [][allowedDirectories' = allowedDirectories]_vars

\* a request has finished with results while a different request, which
\* started its walk before, is suspended in the middle of it
C24_Witness ==
  /\ tool = "search_files" /\ runs = 2
  /\ pc = "done" /\ response.kind = "result" /\ Len(results) > 0
  /\ other.pc = "walk" /\ Len(other.ioLog) > 2 /\ Len(other.results) > 0
  /\ other.args # args

(***************************************************************************)
(* Properties of the search handler.                                       *)
(***************************************************************************)
\* the search path of the request: the argument, or the first allowed directory
EffectiveSearchPath ==
  IF args.searchPath # <<>> THEN args.searchPath
  ELSE IF Len(allowedDirectories) > 0 THEN allowedDirectories[1] ELSE <<>>

\* p names a location at or below the location of root
AtOrBelow(p, root) ==
  isAbsolute(p) /\ isAbsolute(root) /\ SegPrefix(Located(root), Located(p))

InsideAllowed(p) ==
  \E k \in 1..Len(allowedDirectories) : AtOrBelow(p, allowedDirectories[k])

\* C1: a searchPath that is neither an allowed directory nor below one is
\* rejected with an error before any traversal step: the request issues no
\* stat, readdir or readFile, and it ends in an error.
C1_RejectedBeforeTraversal ==
  (tool = "search_files" /\ ~InsideAllowed(normalize(EffectiveSearchPath))) =>
    /\ ioLog = <<>> /\ stack = <<>> /\ results = <<>>
    /\ pc \in {"begin", "done"}
    /\ (pc = "done" => response.kind = "error")

\* the sibling /ab of the allowed directory /a was asked for and refused
C1_Witness ==
  /\ tool = "search_files" /\ pc = "done"
  /\ args.searchPath = <<"/", "a", "b">>
  /\ allowedDirectories = << <<"/", "a">> >>
  /\ response.kind = "error" /\ response.code = "InvalidRequest"
  /\ ioLog = <<>>

\* C2: every result's filePath is the search root or below it, and the search
\* root is inside an allowed directory, also when links are followed.
C2_ResultsUnderRoot ==
  (tool = "search_files" /\ pc \in {"walk", "done"} /\ Len(results) > 0) =>
    /\ \A j \in 1..Len(results) : AtOrBelow(results[j].filePath, options.searchPath)
    /\ InsideAllowed(options.searchPath)
    /\ (response.kind = "result" =>
          \A j \in 1..Len(limitedResults) :
            AtOrBelow(limitedResults[j].filePath, options.searchPath))

\* a finished search that followed the link /a/l and reported it
C2_Witness ==
  /\ tool = "search_files" /\ pc = "done" /\ response.kind = "result"
  /\ options.followSymlinks
  /\ \E j \in 1..Len(limitedResults) :
       /\ limitedResults[j].filePath = <<"/", "a", "/", "l">>
       /\ fs[limitedResults[j].filePath].kind = "symlink"

\* the entries the walk has stat-ed or read (the first call is the stat of
\* the search root itself)
Scanned ==
  {ioLog[i].path : i \in {j \in 2..Len(ioLog) : ioLog[j].op \in {"stat", "readFile"}}}

Listed == {ioLog[i].path : i \in {j \in 1..Len(ioLog) : ioLog[j].op = "readdir"}}

\* the number of directories between the search root and a path below it
DirsBetween(root, p) == Len(Located(p)) - Len(Located(root)) - 1

\* the directories strictly between the real root and the node p
Between(realRoot, p) ==
  {d \in DOMAIN fs : /\ d # p
                     /\ SegPrefix(Located(d), Located(p))
                     /\ SegPrefix(Located(realRoot), Located(d))
                     /\ d # realRoot}

\* the files the walk is to scan, read off the tree: below the root, reached
\* through listable directories none of which is excluded, at most maxDepth
\* directories down
Eligible ==
  LET realRoot == RealPath(fs, options.searchPath) IN
    {p \in DOMAIN fs :
       /\ p # realRoot /\ SegPrefix(Located(realRoot), Located(p))
       /\ \/ fs[p].kind = "file"
          \/ fs[p].kind = "symlink" /\ options.followSymlinks
       /\ basename(p) \notin DEFAULT_EXCLUDED_DIRS
       /\ \A d \in Between(realRoot, p) :
            /\ fs[d].kind = "dir" /\ fs[d].readable
            /\ basename(d) \notin DEFAULT_EXCLUDED_DIRS
       /\ fs[realRoot].readable
       /\ options.maxDepth # <<>> => DirsBetween(realRoot, p) <= options.maxDepth[1]}

\* C8: with maxDepth = d only files with at most d directories between the
\* search root and the file are scanned, and only directories at most d
\* levels down are listed (d = 0: the direct children, no grandchild); a
\* finished walk has scanned exactly the files the tree holds within that
\* depth, every non-excluded level when maxDepth is unset.
C8_DepthBound ==
  (tool = "search_files" /\ pc \in {"walk", "done"}) =>
    /\ options.maxDepth # <<>> =>
         /\ \A p \in Scanned : DirsBetween(options.searchPath, p) <= options.maxDepth[1]
         /\ \A d \in Listed : DirsBetween(options.searchPath, d) < options.maxDepth[1]
    /\ response.kind = "result" =>
         {relative(options.searchPath, p) : p \in Scanned}
           = {relative(RealPath(fs, options.searchPath), p) : p \in Eligible}

\* a finished search of /a with maxDepth = 0: the child /a/x was scanned, the
\* grandchild /a/b/x was not
C8_Witness ==
  /\ tool = "search_files" /\ pc = "done" /\ response.kind = "result"
  /\ options.maxDepth = <<0>>
  /\ options.searchPath = <<"/", "a">>
  /\ <<"/", "a", "/", "x">> \in Scanned
  /\ <<"/", "a", "/", "b", "/", "x">> \notin Scanned
  /\ Exists(fs, <<"/", "a", "/", "b", "/", "x">>)

\* a finished search of /a without maxDepth reached the file three levels down
C8_WitnessUnbounded ==
  /\ tool = "search_files" /\ pc = "done" /\ response.kind = "result"
  /\ options.maxDepth = <<>>
  /\ <<"/", "a", "/", "b", "/", "b", "/", "x">> \in Scanned

(***************************************************************************)
(* The synchronous filesystem calls of rename_file and delete_file.        *)
(***************************************************************************)
PACKAGE_JSON == <<"p", "a", "c", "k", "a", "g", "e", ".", "j", "s", "o", "n">>

\* fs.existsSync(p)
ExistsSync(f, p) == RealPath(f, p) # <<>>

\* the path itself and every ancestor of it, the root excluded
RECURSIVE Ancestry(_)
Ancestry(p) ==
  IF Len(Segs(p)) = 0 THEN {} ELSE {p} \cup Ancestry(dirname(p))

\* fs.mkdirSync(d, {recursive: true}): fails (ENOTDIR) when a component is
\* not a directory, else creates every missing component
MkdirP(f, d) ==
  IF \E q \in Ancestry(d) : Exists(f, q) /\ f[q].kind # "dir"
    THEN [ok |-> FALSE, fs |-> f]
    ELSE [ok |-> TRUE,
          fs |-> [q \in DOMAIN f \cup Ancestry(d) |->
                    IF Exists(f, q) THEN f[q] ELSE Dir(TRUE)]]

Under(p, d) == p = d \/ StartsWith(p, d \o <<"/">>)

\* fs.renameSync(old, new): fails (EINVAL) when new is inside old, or for a
\* reason of the environment (EACCES, EXDEV, EBUSY); else moves the node and
\* everything below it, replacing what was at new
RenameSync(f, old, new, envOk) ==
  IF ~envOk \/ Under(new, old) \/ ~Exists(f, old)
    THEN [ok |-> FALSE, fs |-> f]
    ELSE LET kept  == {q \in DOMAIN f : ~Under(q, old) /\ ~Under(q, new)}
             moved == {new \o SubSeq(q, Len(old) + 1, Len(q)) :
                         q \in {q2 \in DOMAIN f : Under(q2, old)}}
         IN [ok |-> TRUE,
             fs |-> [q \in kept \cup moved |->
                       IF q \in moved
                         THEN f[old \o SubSeq(q, Len(new) + 1, Len(q))]
                         ELSE f[q]]]

\* removal of a node with everything below it (rmSync recursive, rmdirSync
\* of an empty directory, unlinkSync)
Remove(f, p) == [q \in {q2 \in DOMAIN f : ~Under(q2, p)} |-> f[q]]

MutatingOps == {"mkdir", "rename", "chmod", "rmdir", "rm", "unlink"}

Mutations == SelectSeq(ioLog, LAMBDA e : e.op \in MutatingOps)

(***************************************************************************)
(* handleRenameFile.                                                       *)
(***************************************************************************)
\* the two allowed checks with the destination check left out
RenameGuards_SourceOnly(old, new, dirs) ==
  [old |-> renamePathAllowed(old, dirs), new |-> TRUE]

\* lines 43-53: the two allowed checks of handleRenameFile
RenameGuards(old, new, dirs) ==
  [old |-> renamePathAllowed(old, dirs), new |-> renamePathAllowed(new, dirs)]

\* lines 33-61: arguments, resolution, the allowed checks
RenameBegin ==
  /\ tool = "rename_file" /\ pc = "begin"
  /\ IF args.oldPath = <<>> \/ args.newPath = <<>>
       THEN /\ resolved' = resolved /\ pc' = "done"
            /\ response' = Error("InvalidParams", "paths required")
     ELSE LET old == resolve(args.oldPath)
              new == resolve(args.newPath)
              g   == RenameGuards(old, new, allowedDirectories)
          IN /\ resolved' = [old |-> old, new |-> new]
             /\ IF ~g.old
                  THEN /\ pc' = "done"
                       /\ response' = Error("InvalidParams", "source not allowed")
                ELSE IF ~g.new
                  THEN /\ pc' = "done"
                       /\ response' = Error("InvalidParams", "destination not allowed")
                ELSE /\ pc' = "exec" /\ response' = response
  /\ UNCHANGED <<allowedDirectories, fs, fs0, tool, args, options, stack, results,
                 ioLog, lines, lineI, lastIndex, matches, runs, limitedResults, previous, other>>

\* line 70: the destination is taken
DestinationTaken_Never(f, new) == FALSE

DestinationTaken(f, new) == ExistsSync(f, new)

\* lines 63-101: the existence checks, mkdir of the destination directory,
\* the rename; envOk is whether the environment lets renameSync succeed
RenameExec ==
  /\ tool = "rename_file" /\ pc = "exec"
  /\ \E envOk \in BOOLEAN :
       LET old     == resolved.old
           new     == resolved.new
           destDir == dirname(new)
           probe1  == <<Io("existsSync", old)>>
           probe2  == probe1 \o <<Io("existsSync", new)>>
           probe3  == probe2 \o <<Io("existsSync", destDir)>>
           needDir == ~ExistsSync(fs, destDir)
           mk      == IF needDir THEN MkdirP(fs, destDir) ELSE [ok |-> TRUE, fs |-> fs]
           log3    == IF needDir THEN probe3 \o <<Io("mkdir", destDir)>> ELSE probe3
           rn      == RenameSync(mk.fs, old, new, envOk)
       IN IF ~ExistsSync(fs, old)
            THEN /\ ioLog' = ioLog \o probe1 /\ fs' = fs
                 /\ response' = Error("InvalidParams", "source does not exist")
          ELSE IF DestinationTaken(fs, new)
            THEN /\ ioLog' = ioLog \o probe2 /\ fs' = fs
                 /\ response' = Error("InvalidParams", "destination already exists")
          ELSE IF ~mk.ok
            THEN /\ ioLog' = ioLog \o log3 /\ fs' = fs
                 /\ response' = Error("InternalError", "failed to rename")
          ELSE IF ~rn.ok
            THEN /\ ioLog' = ioLog \o log3 \o <<Io("rename", old)>> /\ fs' = mk.fs
                 /\ response' = Error("InternalError", "failed to rename")
          ELSE /\ ioLog' = ioLog \o log3 \o <<Io("rename", old)>> /\ fs' = rn.fs
               /\ response' = Result([success |-> TRUE, oldPath |-> old, newPath |-> new])
  /\ pc' = "done"
  /\ UNCHANGED <<allowedDirectories, fs0, tool, args, options, resolved, stack,
                 results, lines, lineI, lastIndex, matches, runs, limitedResults, previous, other>>

(***************************************************************************)
(* handleDeleteFile.                                                       *)
(***************************************************************************)
\* lines 142-159: argument, resolution, the allowed check
DeleteBegin ==
  /\ tool = "delete_file" /\ pc = "begin"
  /\ IF args.path = <<>>
       THEN /\ resolved' = resolved /\ pc' = "done"
            /\ response' = Error("InvalidParams", "path required")
     ELSE LET target == resolve(args.path) IN
            /\ resolved' = [path |-> target]
            /\ IF ~deletePathAllowed(target, allowedDirectories)
                 THEN /\ pc' = "done"
                      /\ response' = Error("InvalidParams", "path not allowed")
                 ELSE /\ pc' = "exec" /\ response' = response
  /\ UNCHANGED <<allowedDirectories, fs, fs0, tool, args, options, stack, results,
                 ioLog, lines, lineI, lastIndex, matches, runs, limitedResults, previous, other>>

\* line 176: a directory with entries is refused without recursive
RefuseNonEmpty_Never(isEmpty, recursive) == FALSE

RefuseNonEmpty(isEmpty, recursive) == ~isEmpty /\ ~recursive

\* lines 161-239: existence, stat, then the removal; envOk is whether the
\* environment lets the removal call succeed
DeleteExec ==
  /\ tool = "delete_file" /\ pc = "exec"
  /\ \E envOk \in BOOLEAN :
       LET target  == resolved.path
           real    == RealPath(fs, target)
           probe1  == <<Io("existsSync", target)>>
           probe2  == probe1 \o <<Io("statSync", target)>>
           probe3  == probe2 \o <<Io("readdirSync", target)>>
           isEmpty == Children(fs, real) = {}
       IN IF ~ExistsSync(fs, target)
            THEN /\ ioLog' = ioLog \o probe1 /\ fs' = fs
                 /\ response' = Error("InvalidParams", "path does not exist")
          ELSE IF fs[real].kind = "dir"
            THEN IF ~fs[real].readable
                   THEN /\ ioLog' = ioLog \o probe3 /\ fs' = fs
                        /\ response' = Error("InternalError", "permission denied")
                 ELSE IF RefuseNonEmpty(isEmpty, args.recursive)
                   THEN /\ ioLog' = ioLog \o probe3 /\ fs' = fs
                        /\ response' = Error("InvalidParams", "directory is not empty")
                 ELSE IF args.recursive
                   THEN /\ ioLog' = ioLog \o probe3 \o <<Io("rm", target)>>
                        /\ IF envOk
                             THEN /\ fs' = Remove(fs, LPath(fs, target))
                                  /\ response' = Result([success |-> TRUE, type |-> "directory"])
                             ELSE /\ fs' = fs
                                  /\ response' = Error("InternalError", "failed to delete")
                 ELSE /\ ioLog' = ioLog \o probe3 \o <<Io("rmdir", target)>>
                      /\ IF envOk /\ isEmpty
                           THEN /\ fs' = Remove(fs, LPath(fs, target))
                                /\ response' = Result([success |-> TRUE, type |-> "directory"])
                         ELSE IF ~isEmpty
                           THEN /\ fs' = fs
                                /\ response' = Error("InternalError", "directory is not empty")
                           ELSE /\ fs' = fs
                                /\ response' = Error("InternalError", "failed to delete")
          ELSE LET chmodded == [fs EXCEPT ![real].readable = TRUE]
                   before   == IF args.force THEN chmodded ELSE fs
                   log      == IF args.force
                                 THEN probe2 \o <<Io("chmod", target), Io("unlink", target)>>
                                 ELSE probe2 \o <<Io("unlink", target)>>
               IN /\ ioLog' = ioLog \o log
                  /\ IF envOk
                       THEN /\ fs' = Remove(before, LPath(fs, target))
                            /\ response' = Result([success |-> TRUE, type |-> "file"])
                       ELSE /\ fs' = before
                            /\ response' = Error("InternalError", "failed to delete")
  /\ pc' = "done"
  /\ UNCHANGED <<allowedDirectories, fs0, tool, args, options, resolved, stack,
                 results, lines, lineI, lastIndex, matches, runs, limitedResults, previous, other>>

(***************************************************************************)
(* handleCheckOutdated.                                                    *)
(***************************************************************************)
\* lines 54-82: the project path, the allowed check, package.json
OutdatedBegin ==
  /\ tool = "check_outdated" /\ pc = "begin"
  /\ LET projectPath == IF args.projectPath # <<>> THEN args.projectPath
                        ELSE IF Len(allowedDirectories) > 0
                          THEN allowedDirectories[1] ELSE <<>>
     IN IF projectPath = <<>>
          THEN /\ resolved' = resolved /\ pc' = "done"
               /\ response' = Error("InvalidParams", "no project path")
        ELSE LET target == resolve(projectPath) IN
               /\ resolved' = [path |-> target]
               /\ IF ~outdatedPathAllowed(target, allowedDirectories)
                    THEN /\ pc' = "done" /\ ioLog' = ioLog
                         /\ response' = Error("InvalidParams", "path not allowed")
                  ELSE IF ~ExistsSync(fs, join(target, PACKAGE_JSON))
                    THEN /\ pc' = "done"
                         /\ ioLog' = Append(ioLog, Io("existsSync", join(target, PACKAGE_JSON)))
                         /\ response' = Error("InvalidParams", "package.json not found")
                  ELSE /\ pc' = "exec" /\ response' = response
                       /\ ioLog' = Append(ioLog, Io("existsSync", join(target, PACKAGE_JSON)))
  /\ UNCHANGED <<allowedDirectories, fs, fs0, tool, args, options, stack, results,
                 lines, lineI, lastIndex, matches, runs, limitedResults, previous, other>>

\* the outcomes of one run of 'npm outdated --json'
NpmOutcomes ==
  {[exit |-> e, stdout |-> o, packages |-> n] :
     e \in {"0", "1", "ENOENT", "timeout"}, o \in {"json", "garbage", "empty"},
     n \in 0..2}

\* the log entry of one run of npm, with what the run gave
Exec(path, out) == [op |-> "exec", path |-> path, out |-> out]

\* lines 84-196: one run of npm; exit code 1 with output re-enters the handler
OutdatedExec ==
  /\ tool = "check_outdated" /\ pc = "exec" /\ runs < MaxRuns
  /\ runs' = runs + 1
  /\ \E out \in NpmOutcomes :
       /\ out.stdout # "json" => out.packages = 0
       /\ ioLog' = Append(ioLog, Exec(resolved.path, out))
       /\ IF out.exit = "0"
            THEN /\ pc' = "done"
                 /\ response' = Result([success |-> TRUE,
                                        hasOutdated |-> out.packages > 0,
                                        totalOutdated |-> out.packages])
          ELSE IF out.exit = "1" /\ out.stdout # "empty"
            THEN /\ pc' = "begin" /\ response' = response
          ELSE /\ pc' = "done"
               /\ response' = Error("InternalError", "failed to check outdated")
  /\ UNCHANGED <<allowedDirectories, fs, fs0, tool, args, options, resolved, stack,
                 results, lines, lineI, lastIndex, matches, limitedResults, previous, other>>

(***************************************************************************)
(* One request to rename_file, delete_file or check_outdated.              *)
(***************************************************************************)
FilesFs ==
  (<<"/">> :> Dir(TRUE))
  @@ (<<"/", "a">> :> Dir(TRUE))
  @@ (<<"/", "a", "/", "x">> :> File(<<"x">>, 1, TRUE))
  @@ (<<"/", "a", "/", "y">> :> File(<<"a">>, 1, TRUE))
  @@ (<<"/", "a", "/", "b">> :> Dir(TRUE))
  @@ (<<"/", "a", "/", "b", "/", "x">> :> File(<<"x">>, 1, TRUE))
  @@ (<<"/", "a", "/", "e">> :> Dir(TRUE))
  @@ (<<"/", "a", "/", "p", "a", "c", "k", "a", "g", "e", ".", "j", "s", "o", "n">> :> File(<<"x">>, 1, TRUE))
  @@ (<<"/", "a", "b">> :> Dir(TRUE))
  @@ (<<"/", "a", "b", "/", "x">> :> File(<<"x">>, 1, TRUE))
  @@ (<<"/", "a", "b", "/", "p", "a", "c", "k", "a", "g", "e", ".", "j", "s", "o", "n">> :> File(<<"x">>, 1, TRUE))
  @@ (<<"/", "w">> :> Dir(TRUE))

FilePathArgs == {<<"/", "a", "/", "x">>,
                 <<"/", "a", "/", "y">>,
                 <<"/", "a", "/", "b">>,
                 <<"/", "a", "/", "e">>,
                 <<"/", "a", "/", "n", "/", "m">>,
                 <<"/", "a", "/", "b", "/", "c", "/", "z">>,
                 <<"/", "a", "b", "/", "x">>,
                 <<"/", "a", "/", ".", ".", "/", "a", "b", "/", "x">>,
                 <<"/", "c", "/", "x">>,
                 <<"/", "a">>}

FilesRoots == {<< <<"/", "a">> >>, << <<"/", "a", "/", "b">>, <<"/", "a">> >>}

InitFiles ==
  /\ allowedDirectories \in FilesRoots
  /\ fs = FilesFs /\ fs0 = FilesFs
  /\ pc = "begin"
  /\ \/ /\ tool = "rename_file"
        /\ args \in [oldPath : FilePathArgs, newPath : FilePathArgs \cup {<<>>}]
     \/ /\ tool = "delete_file"
        /\ args \in [path : FilePathArgs \cup {<<>>}, recursive : BOOLEAN, force : BOOLEAN]
     \/ /\ tool = "check_outdated"
        /\ args \in [projectPath : {<<>>, <<"/", "a">>, <<"/", "a", "b">>, <<"/", "a", "/", "b">>, <<"/", "c">>}]
  /\ Quiet

NextFiles ==
  RenameBegin \/ RenameExec \/ DeleteBegin \/ DeleteExec \/ OutdatedBegin \/ OutdatedExec

SpecFiles == InitFiles /\ [][NextFiles]_vars

(***************************************************************************)
(* Properties of rename_file, delete_file and check_outdated.              *)
(***************************************************************************)
\* the resolved path arguments of the request being handled
PathArguments ==
  IF tool = "rename_file" THEN {resolved.old, resolved.new} ELSE {resolved.path}

\* the handler has run its allowed checks and let the request through
PassedChecks ==
  /\ tool \in {"rename_file", "delete_file", "check_outdated"}
  /\ resolved # <<>>
  /\ \/ pc = "exec"
     \/ pc = "done" /\ Len(ioLog) > 0

\* the handler has refused the request in its allowed checks
RefusedByChecks ==
  /\ tool \in {"rename_file", "delete_file", "check_outdated"}
  /\ pc = "done" /\ response.kind = "error"
  /\ response.value \in {"source not allowed", "destination not allowed",
                         "path not allowed"}

\* C4: rename_file, delete_file and check_outdated let a path through exactly
\* when the guard of the search tool accepts it: a request that passed the
\* checks has only path arguments at or below an allowed directory, and a
\* refused request has an argument the search guard refuses too.
C4_SameGuardEverywhere ==
  /\ PassedChecks =>
       \A p \in PathArguments : isPathAllowed(p, allowedDirectories) /\ InsideAllowed(p)
  /\ RefusedByChecks =>
       \E p \in PathArguments : ~isPathAllowed(p, allowedDirectories)

\* C5: in rename_file and delete_file the allowed check of every path argument
\* comes before every mutating call: when an argument fails the handler's
\* check, no mkdir, rename, chmod, rmdir, rm or unlink is issued and the
\* filesystem stays as it was.
FailsOwnCheck ==
  \/ /\ tool = "rename_file" /\ resolved # <<>>
     /\ \/ ~renamePathAllowed(resolved.old, allowedDirectories)
        \/ ~renamePathAllowed(resolved.new, allowedDirectories)
  \/ /\ tool = "delete_file" /\ resolved # <<>>
     /\ ~deletePathAllowed(resolved.path, allowedDirectories)

C5_CheckBeforeMutation ==
  /\ [](FailsOwnCheck => (Mutations = <<>> /\ fs = fs0 /\ pc = "done"
                          /\ response.kind = "error"))
  /\ [][(tool \in {"rename_file", "delete_file"} /\ Mutations' # Mutations)
          => (pc = "exec" /\ ~FailsOwnCheck)]_vars

\* a rename whose destination /c/x fails the check ended without any call
C5_Witness ==
  /\ tool = "rename_file" /\ pc = "done"
  /\ resolved # <<>> /\ resolved.new = <<"/", "c", "/", "x">>
  /\ renamePathAllowed(resolved.old, allowedDirectories)
  /\ response.kind = "error" /\ response.value = "destination not allowed"
  /\ ioLog = <<>> /\ fs = fs0

\* a rename whose two paths passed the checks, whose source exists and whose
\* destination exists already
RenameOntoExisting ==
  /\ tool = "rename_file" /\ pc = "done" /\ resolved # <<>>
  /\ renamePathAllowed(resolved.old, allowedDirectories)
  /\ renamePathAllowed(resolved.new, allowedDirectories)
  /\ ExistsSync(fs0, resolved.old) /\ ExistsSync(fs0, resolved.new)

DeleteNonEmptyDir ==
  /\ tool = "delete_file" /\ pc = "done" /\ resolved # <<>>
  /\ deletePathAllowed(resolved.path, allowedDirectories)
  /\ ~args.recursive
  /\ Exists(fs0, resolved.path) /\ fs0[resolved.path].kind = "dir"
  /\ Children(fs0, resolved.path) # {}

LastCall == ioLog[Len(ioLog)]

\* C18: a run of npm that exits with code 1 and prints JSON naming n >= 1
\* packages is the 'has outdated packages' case: the request is answered from
\* that output, with success = true, hasOutdated = true and totalOutdated = n.
C18_ExitOneIsOutdated ==
  (/\ tool = "check_outdated" /\ Len(ioLog) > 0 /\ LastCall.op = "exec"
   /\ LastCall.out.exit = "1" /\ LastCall.out.stdout = "json"
   /\ LastCall.out.packages >= 1) =>
    /\ pc = "done"
    /\ response = Result([success |-> TRUE, hasOutdated |-> TRUE,
                          totalOutdated |-> LastCall.out.packages])

\* C30: a rename_file call that ends with an error leaves the filesystem as
\* it was: no directory has been created and nothing has been moved, also
\* when the parent directories of the destination did not exist.
C30_FailedRenameChangesNothing ==
  (tool = "rename_file" /\ pc = "done" /\ response.kind = "error") => fs = fs0

\* the runs of npm the request has started
ExecRuns == {k \in 1..Len(ioLog) : ioLog[k].op = "exec"}

\* C25: check_outdated retries at most once: a call runs npm at most twice,
\* and after the second run it has returned a result or an error, also when
\* npm exits with code 1 on every run.
C25_RetriesAtMostOnce ==
  tool = "check_outdated" =>
    /\ Cardinality(ExecRuns) <= 2
    /\ Cardinality(ExecRuns) = 2 => pc = "done"

(***************************************************************************)
(* Properties of the report of search_files.                               *)
(***************************************************************************)
\* the number of matches in a list of file results
RECURSIVE TotalMatches(_)
TotalMatches(rs) ==
  IF Len(rs) = 0 THEN 0 ELSE Len(Head(rs).matches) + TotalMatches(Tail(rs))

\* the number of match lines of a text report
EmittedMatches(out) ==
  Cardinality({k \in 1..Len(out.lines) : out.lines[k].kind = "match"})

HasTruncationNotice(out) ==
  \E k \in 1..Len(out.lines) : out.lines[k].kind = "truncated"

\* a finished search whose request set maxResults = N >= 1 and whose walk
\* found more than N matches
CapExceeded ==
  /\ tool = "search_files" /\ pc = "done" /\ response.kind = "result"
  /\ args.maxResults # <<>> /\ args.maxResults[1] >= 1
  /\ TotalMatches(results) > args.maxResults[1]

\* C11: with maxResults = N and more than N matches found, the results are
\* sorted and then capped before formatting; the text report holds exactly N
\* match lines and a truncation notice, grouped by file or not, and the JSON
\* report holds at most N file results.
C11_CapEnforced ==
  CapExceeded =>
    LET N   == args.maxResults[1]
        out == response.value
    IN /\ limitedResults = Slice(sortResults(results, options.sortBy), N)
       /\ out.format = "json" =>
            (Len(out.entries) <= N /\ out.entries = limitedResults)
       /\ out.format = "text" =>
            (EmittedMatches(out) = N /\ HasTruncationNotice(out))

\* the regex source the request asks for
RequestPattern == PatternSource(BuildOptions(args, allowedDirectories))

\* C14: a pattern that is not a valid regex makes the request fail as a
\* whole: no directory is listed and no file is read for it, and the request
\* ends in an error, not in a report.
C14_MalformedPatternRejected ==
  (tool = "search_files" /\ ~RegExpCompile(RequestPattern).ok) =>
    /\ \A k \in 1..Len(ioLog) : ioLog[k].op \notin {"readdir", "readFile"}
    /\ pc = "done" => response.kind = "error"

\* the entry p of the tree leads to a readable file that passes the size
\* filter and holds the literal pattern of the request
ReadableMatch(p) ==
  LET real == RealPath(fs, p) IN
    /\ real # <<>>
    /\ fs[real].kind = "file" /\ fs[real].readable
    /\ (options.minSize # <<>> => fs[real].size >= options.minSize[1])
    /\ Contains(LowerStr(fs[real].content), LowerStr(options.pattern))

\* the entry p of the tree leads to a readable text file that passes the
\* size filter
AdmittedText(p) ==
  LET real == RealPath(fs, p) IN
    /\ real # <<>>
    /\ fs[real].kind = "file" /\ fs[real].readable
    /\ (options.minSize # <<>> => fs[real].size >= options.minSize[1])
    /\ ~isBinaryContent(fs[real].content)

\* C22: a search for '.*' (given, or taken as the default pattern) with
\* regexMode at its default acts as match-all: every readable text file that
\* passes the exclusion rules and the filters is in the results.
C22_DefaultPatternMatchesAll ==
  (/\ tool = "search_files" /\ pc = "done" /\ response.kind = "result"
   /\ options.pattern = DefaultPattern /\ ~options.regexMode) =>
    {relative(RealPath(fs, options.searchPath), p) :
       p \in {q \in Eligible : AdmittedText(q)}}
      \subseteq {results[j].relativePath : j \in 1..Len(results)}

\* the files a walk without failures of its own is to report
Expected ==
  {relative(RealPath(fs, options.searchPath), p) :
     p \in {q \in Eligible : ReadableMatch(q)}}

\* the entries of the walk whose listing, stat or read failed
FailedEntries ==
  {ioLog[k].path : k \in {j \in 2..Len(ioLog) :
     \/ ioLog[j].op = "readdir" /\ ~ReadDir(fs, ioLog[j].path).ok
     \/ ioLog[j].op = "stat" /\ ~Stat(fs, ioLog[j].path).ok
     \/ ioLog[j].op = "readFile" /\ ~ReadFile(fs, ioLog[j].path).ok}}

\* C15: a failed readdir of a subdirectory and a failed stat or read of a
\* file are skipped: the failed entry gives no result, every other readable,
\* admitted file with a match is in the results, and a request whose walk
\* has started ends with a report, never with an error.
C15_EntryFailuresSkipped ==
  (tool = "search_files" /\ ~args.regexMode) =>
    /\ pc = "walk" => response.kind = "none"
    /\ (pc = "done" /\ Len(ioLog) > 1) => response.kind = "result"
    /\ (pc = "done" /\ response.kind = "result") =>
         /\ {results[j].relativePath : j \in 1..Len(results)} = Expected
         /\ \A j \in 1..Len(results) : results[j].filePath \notin FailedEntries

\* a finished search of /a that followed links: the dangling link /a/k could
\* not be stat-ed, /a/u could not be listed, /a/n and the directory behind
\* /a/d could not be read, and /a/x and /a/y, which come after them, are
\* reported
C15_Witness ==
  /\ tool = "search_files" /\ pc = "done" /\ response.kind = "result"
  /\ options.followSymlinks
  /\ {<<"/", "a", "/", "k">>, <<"/", "a", "/", "u">>, <<"/", "a", "/", "n">>,
      <<"/", "a", "/", "d">>} \subseteq FailedEntries
  /\ {<<"x">>, <<"y">>} \subseteq {results[j].relativePath : j \in 1..Len(results)}

\* a may stand before b in a list ordered by the key the request names
InKeyOrder(key, a, b) ==
  CASE key = "file"       -> ~StrLess(b.relativePath, a.relativePath)
    [] key = "lineNumber" -> a.matches[1].lineNumber <= b.matches[1].lineNumber
    [] key = "modified"   -> a.lastModified >= b.lastModified
    [] key = "size"       -> a.fileSize >= b.fileSize
    [] OTHER              -> Len(a.matches) >= Len(b.matches)

\* C16: the results are ordered by the requested key: relevance (also for a
\* missing or unknown key) by falling match count, file by rising relative
\* path, lineNumber by rising line of the first match, modified by falling
\* modification time, size by falling size; every adjacent pair of the
\* sorted list respects the order, and the sorted list holds exactly the
\* results of the walk (all of them when the cap does not cut).
C16_SortedByKey ==
  (tool = "search_files" /\ pc = "done" /\ response.kind = "result") =>
    /\ \A j \in 1..(Len(limitedResults) - 1) :
         InKeyOrder(args.sortBy, limitedResults[j], limitedResults[j + 1])
    /\ {limitedResults[j] : j \in 1..Len(limitedResults)}
         \subseteq {results[j] : j \in 1..Len(results)}
    /\ Len(limitedResults) = Min(Len(results), options.maxResults[1])
    /\ Cardinality({limitedResults[j] : j \in 1..Len(limitedResults)})
         = Len(limitedResults)
    /\ \A j \in 1..Len(results) :
         (\A k \in 1..Len(limitedResults) : limitedResults[k] # results[j])
           => InKeyOrder(args.sortBy, limitedResults[Len(limitedResults)], results[j])

\* a finished search of /a sorted by size: five files reported, the largest
\* first, in another order than the walk found them
C16_Witness ==
  /\ tool = "search_files" /\ pc = "done" /\ response.kind = "result"
  /\ args.sortBy = "size"
  /\ Len(limitedResults) = 5 /\ Len(results) = 5
  /\ limitedResults # results
  /\ limitedResults[1].fileSize > limitedResults[5].fileSize

IsLinkEntry(p) ==
  LPath(fs, p) # <<>> /\ fs[LPath(fs, p)].kind = "symlink"

\* the calls of the walk on the entries it meets (the calls on the search
\* path itself, which the request names, are not among them)
EntryCalls ==
  {ioLog[k] : k \in {j \in 1..Len(ioLog) : ioLog[j].path # options.searchPath}}

\* C26: with followSymlinks = false no symbolic link met by the walk is
\* stat-ed, read or listed; with followSymlinks = true a link to a file is
\* admitted like a file and a link to a directory is traversed.
C26_SymlinksByFlag ==
  (tool = "search_files" /\ pc \in {"walk", "done"}) =>
    /\ ~options.followSymlinks => \A c \in EntryCalls : ~IsLinkEntry(c.path)
    /\ (options.followSymlinks /\ pc = "done" /\ response.kind = "result") =>
         \A p \in {q \in Eligible : fs[q].kind = "symlink" /\ RealPath(fs, q) # <<>>} :
           IF fs[RealPath(fs, p)].kind = "dir"
             THEN Io("readdir", p) \in EntryCalls
             ELSE ReadableMatch(p) =>
                    \E j \in 1..Len(results) : results[j].filePath = p

\* the records ms of one file are within their lines, and those of one line
\* go left to right without overlap, each starting after the one before
WellOrdered(ms) ==
  /\ \A j \in 1..Len(ms) :
       /\ 0 <= ms[j].matchStart /\ ms[j].matchStart <= ms[j].matchEnd
       /\ ms[j].matchEnd <= Len(ms[j].lineContent)
  /\ \A j \in 1..(Len(ms) - 1) :
       ms[j + 1].lineNumber = ms[j].lineNumber =>
         /\ ms[j + 1].matchStart >= ms[j].matchEnd
         /\ ms[j + 1].matchStart > ms[j].matchStart

\* C28: the matches of one line never overlap and are reported left to
\* right, with strict progress also after a zero-width match; every record
\* has 0 <= matchStart <= matchEnd <= line length; every FileResult holds at
\* least one match.
C28_MatchesDisjointNonEmpty ==
  tool = "search_files" =>
    \A j \in 1..Len(results) :
      /\ Len(results[j].matches) >= 1
      /\ WellOrdered(results[j].matches)

\* a file result whose line has a zero-width match followed by another match
C28_Witness ==
  /\ tool = "search_files" /\ pc = "done"
  /\ \E j \in 1..Len(results) :
       LET ms == results[j].matches IN
         \E k \in 1..(Len(ms) - 1) :
           /\ ms[k].matchStart = ms[k].matchEnd
           /\ ms[k + 1].lineNumber = ms[k].lineNumber
           /\ ms[k + 1].matchEnd > ms[k + 1].matchStart

(***************************************************************************)
(* matchesExtension as a pure function: applied to every file name of up   *)
(* to MaxNameLen characters and to include and exclude lists of at most    *)
(* one entry of up to MaxExtLen characters.  An absent list and an empty   *)
(* list are both <<>>: the code treats them alike.                         *)
(***************************************************************************)
NameAlphabet == {"f", ".", "x", "X"}
ExtAlphabet == {".", "x", "X"}

ExtLists == {<<>>} \cup {<<e>> : e \in StrUpTo(ExtAlphabet, MaxExtLen)}

InitExt ==
  /\ allowedDirectories = << <<"/", "a">> >>
  /\ fs = <<>> /\ fs0 = <<>>
  /\ tool = "matchesExtension" /\ pc = "call"
  /\ \E name \in StrUpTo(NameAlphabet, MaxNameLen) \ {<<>>},
        inc \in ExtLists, exc \in ExtLists :
       args = [filePath |-> <<"/", "a", "/">> \o name,
               extensions |-> inc, excludeExtensions |-> exc]
  /\ Quiet

\* line 300: the extension test of one entry of the walk
ExtEval ==
  /\ tool = "matchesExtension" /\ pc = "call"
  /\ response' = Result(matchesExtension(args.filePath, args.extensions,
                                         args.excludeExtensions))
  /\ pc' = "done"
  /\ UNCHANGED <<allowedDirectories, fs, fs0, tool, args, options, resolved,
                 stack, results, ioLog, lines, lineI, lastIndex, matches, runs,
                 limitedResults, previous, other>>

NextExt == ExtEval

SpecExt == InitExt /\ [][NextExt]_vars

\* the extension of the file of the request, in lower case, with its dot
FileExt == LowerStr(extname(args.filePath))

\* a list entry names the extension ext: it is ext, with or without the
\* leading dot, in any letter case
Names(entry, ext) ==
  \/ LowerStr(entry) = ext
  \/ <<".">> \o LowerStr(entry) = ext

NamedIn(list, ext) == \E k \in 1..Len(list) : Names(list[k], ext)

ExtDecided == tool = "matchesExtension" /\ pc = "done"

\* C12: a file whose extension is named in excludeExtensions is never
\* admitted, whether or not extensions names it too and whatever the letter
\* case; without an include list every file whose extension is not excluded
\* is admitted.
C12_ExcludeWins ==
  ExtDecided =>
    /\ NamedIn(args.excludeExtensions, FileExt) => response.value = FALSE
    /\ (args.extensions = <<>> /\ ~NamedIn(args.excludeExtensions, FileExt))
         => response.value = TRUE

\* f.X with extensions ['.x'] and excludeExtensions ['X'] was refused
C12_Witness ==
  /\ ExtDecided
  /\ args.filePath = <<"/", "a", "/", "f", ".", "X">>
  /\ args.extensions = << <<".", "x">> >>
  /\ args.excludeExtensions = << <<"X">> >>
  /\ response.value = FALSE

\* f.x without an include list and with another extension excluded was admitted
C12_WitnessOpen ==
  /\ ExtDecided
  /\ args.filePath = <<"/", "a", "/", "f", ".", "x">>
  /\ args.extensions = <<>>
  /\ args.excludeExtensions = << <<".">> >>
  /\ response.value = TRUE

\* C13: both lists accept an entry with or without the leading dot: a file is
\* refused when excludeExtensions names its extension, and otherwise, with an
\* include list, admitted exactly when extensions names its extension (for
\* every file with an extension of at least one character after the dot).
C13_DotTolerantBothLists ==
  (ExtDecided /\ Len(FileExt) >= 2) =>
    /\ NamedIn(args.excludeExtensions, FileExt) => response.value = FALSE
    /\ (args.extensions # <<>> /\ ~NamedIn(args.excludeExtensions, FileExt))
         => (response.value = NamedIn(args.extensions, FileExt))

(***************************************************************************)
(* shouldExcludePath as a pure function: applied to every entry name of up *)
(* to MaxNameLen characters, below two directories, and to every list of   *)
(* at most one user pattern of up to MaxExtLen characters.                 *)
(***************************************************************************)
ExcludeNameAlphabet == {"t", "T", "s", "."}
ExcludePatternAlphabet == {"t", "s", "*", "?", "."}
ExcludeDirs == {<<"/", "a", "/">>, <<"/", "t", "/">>, <<"/", "a", "/", "t", "s", "/">>}

InitExclude ==
  /\ allowedDirectories = << <<"/", "a">> >>
  /\ fs = <<>> /\ fs0 = <<>>
  /\ tool = "shouldExcludePath" /\ pc = "call"
  /\ \E dir \in ExcludeDirs,
        name \in (StrUpTo(ExcludeNameAlphabet, MaxNameLen)
                    \ {<<>>, <<".">>, <<".", ".">>}) \cup {DIST},
        pats \in {<<>>} \cup {<<p>> : p \in StrUpTo(ExcludePatternAlphabet, MaxExtLen)} :
       args = [entryPath |-> dir \o name, excludePatterns |-> pats]
  /\ Quiet

\* line 277: the exclusion test of one entry of the walk
ExcludeEval ==
  /\ tool = "shouldExcludePath" /\ pc = "call"
  /\ response' = Result(shouldExcludePath(args.entryPath, args.excludePatterns))
  /\ pc' = "done"
  /\ UNCHANGED <<allowedDirectories, fs, fs0, tool, args, options, resolved,
                 stack, results, ioLog, lines, lineI, lastIndex, matches, runs,
                 limitedResults, previous, other>>

NextExclude == ExcludeEval

SpecExclude == InitExclude /\ [][NextExclude]_vars

\* the glob pat matches the whole name, letters compared without case:
\* '*' stands for any run of characters, '?' for one character
RECURSIVE GlobMatch(_, _)
GlobMatch(pat, name) ==
  IF Len(pat) = 0 THEN Len(name) = 0
  ELSE IF Head(pat) = "*"
    THEN GlobMatch(Tail(pat), name) \/ (Len(name) > 0 /\ GlobMatch(pat, Tail(name)))
  ELSE /\ Len(name) > 0
       /\ (Head(pat) = "?" \/ Lower(Head(pat)) = Lower(Head(name)))
       /\ GlobMatch(Tail(pat), Tail(name))

IsGlob(pat) == \E i \in 1..Len(pat) : pat[i] \in {"*", "?"}

\* the rule of the exclusion, on the base name of the entry alone
SkippedByName(base, pats) ==
  \/ base \in DEFAULT_EXCLUDED_DIRS
  \/ \E k \in 1..Len(pats) :
       IF IsGlob(pats[k]) THEN GlobMatch(pats[k], base) ELSE Contains(base, pats[k])

\* C27: an entry is skipped iff its base name is a built-in excluded name, or
\* a user pattern with '*' or '?' matches the base name as a case-insensitive
\* glob, or another user pattern is a case-sensitive substring of the base
\* name; the names higher up in the path of the entry play no part.
C27_ExcludedByBaseName ==
  (tool = "shouldExcludePath" /\ pc = "done") =>
    (response.value <=> SkippedByName(basename(args.entryPath), args.excludePatterns))

(***************************************************************************)
(* The server of index.ts: the ListTools handler, the CallTool handler     *)
(* that dispatches on the tool name, and explore_project.  No file of the  *)
(* tree has an extension that explore_project analyses for imports and     *)
(* exports, so a FileInfo is the path and the size.                        *)
(***************************************************************************)
EXCLUDED_DIRS == {NEXT, NODE_MODULES, EXPORT, GIT, DIST, BUILD}

\* the tools of the README's 'Available Commands'
DocumentedTools ==
  {"explore_project", "search_files", "check_outdated", "delete_file",
   "rename_file", "list_allowed_directories"}

\* lines 214-250: the tools the ListTools handler returns
AdvertisedTools == {"explore_project", "list_allowed_directories"}

\* shouldExcludePath of index.ts
explorerShouldExcludePath(pathToCheck) == basename(pathToCheck) \in EXCLUDED_DIRS

FileInfo(entryPath, st) == [path |-> entryPath, size |-> st.size, isEmpty |-> st.size = 0]

\* scanDirectory: the files below dirPath, in the order of the walk
RECURSIVE scanDirectory(_, _)
RECURSIVE ScanEntries(_, _, _)
scanDirectory(f, dirPath) ==
  LET rd == ReadDir(f, dirPath) IN
    IF ~rd.ok THEN <<>> ELSE ScanEntries(f, dirPath, rd.entries)

ScanEntries(f, dirPath, entries) ==
  IF Len(entries) = 0 THEN <<>>
  ELSE LET entryPath == join(dirPath, Head(entries))
           kind      == DirentKind(f, entryPath)
           st        == Stat(f, entryPath)
           here      == IF kind = "dir" /\ explorerShouldExcludePath(entryPath) THEN <<>>
                        ELSE IF kind = "dir" THEN scanDirectory(f, entryPath)
                        ELSE IF kind = "file" /\ st.ok THEN <<FileInfo(entryPath, st)>>
                        ELSE <<>>
       IN here \o ScanEntries(f, dirPath, Tail(entries))

\* lines 311-313: the hidden files are dropped unless includeHidden
FilterHidden(files, includeHidden) ==
  IF includeHidden THEN files
  ELSE SelectSeq(files, LAMBDA file : ~StartsWith(basename(file.path), <<".">>))

\* formatResults of index.ts: the files sorted by path, each with its path
\* relative to the directory and its size
explorerFormatResults(files, dirPath) ==
  LET sorted == SortedSeq({files[k].path : k \in 1..Len(files)}) IN
    [title |-> dirPath, total |-> Len(files),
     files |-> [k \in 1..Len(sorted) |->
                  [path |-> relative(dirPath, sorted[k]),
                   size |-> (CHOOSE fi \in {files[j] : j \in 1..Len(files)} :
                               fi.path = sorted[k]).size]]]

\* the tree of the search with a hidden file and a hidden directory
ServerFs ==
  (<<"/", "a", "/", ".", "h">> :> File(<<"x">>, 1, TRUE))
  @@ (<<"/", "a", "/", ".", "g">> :> Dir(TRUE))
  @@ (<<"/", "a", "/", ".", "g", "/", "x">> :> File(<<>>, 1, TRUE))
  @@ SearchFs

ToolNames == DocumentedTools \cup {"read_file"}

DirectoryArgs == {<<>>, <<"/", "a">>, <<"/", "a", "/", "b">>, <<"/", "a", "b">>,
                  <<"/", "a", "/", "x">>, <<"/", "a", "/", "z">>}

SubDirectoryArgs == {<<>>, <<"b">>, <<".", ".">>, <<".", "g">>}

InitServer ==
  /\ allowedDirectories \in SearchRoots
  /\ fs = ServerFs /\ fs0 = ServerFs
  /\ pc = "request"
  /\ \/ /\ tool = "" /\ args = [method |-> "tools/list"]
     \/ /\ tool \in ToolNames
        /\ \E d \in DirectoryArgs, sd \in SubDirectoryArgs, ih \in BOOLEAN :
             args = [method |-> "tools/call", directory |-> d, subDirectory |-> sd,
                     includeHidden |-> ih]
  /\ Quiet

ServerFrame == <<allowedDirectories, fs, fs0, tool, args, options, stack, results,
                 lines, lineI, lastIndex, matches, runs, limitedResults, previous, other>>

\* lines 211-251
ListTools ==
  /\ pc = "request" /\ args.method = "tools/list"
  /\ response' = Result(AdvertisedTools)
  /\ pc' = "done"
  /\ UNCHANGED <<resolved, ioLog>>
  /\ UNCHANGED ServerFrame

\* lines 254-300 and 341-345: the dispatch on the name, and the argument
\* and path checks of explore_project
CallTool ==
  /\ pc = "request" /\ args.method = "tools/call"
  /\ IF tool = "list_allowed_directories"
       THEN /\ response' = Result(allowedDirectories) /\ pc' = "done"
            /\ resolved' = resolved
     ELSE IF tool = "explore_project"
       THEN IF args.directory = <<>>
              THEN /\ response' = Error("InvalidRequest", "directory required")
                   /\ pc' = "done" /\ resolved' = resolved
            ELSE LET joined      == IF args.subDirectory # <<>>
                                      THEN join(args.directory, args.subDirectory)
                                      ELSE args.directory
                     fullDirPath == normalize(joined)
                 IN /\ resolved' = [path |-> fullDirPath]
                    /\ IF ~isPathAllowed(fullDirPath, allowedDirectories)
                         THEN /\ response' = Error("InvalidRequest", "access denied")
                              /\ pc' = "done"
                         ELSE /\ response' = response /\ pc' = "scan"
     ELSE /\ response' = Error("InvalidRequest", "unknown tool") /\ pc' = "done"
          /\ resolved' = resolved
  /\ UNCHANGED ioLog
  /\ UNCHANGED ServerFrame

\* lines 302-320: the directory exists, the scan, the filter, the report
ExploreScan ==
  /\ tool = "explore_project" /\ pc = "scan"
  /\ ioLog' = Append(ioLog, Io("stat", resolved.path))
  /\ LET dirStats == Stat(fs, resolved.path) IN
       IF ~dirStats.ok \/ ~dirStats.isDirectory
         THEN response' = Error("InvalidRequest", "not a directory")
         ELSE response' = Result(explorerFormatResults(
                FilterHidden(scanDirectory(fs, resolved.path), args.includeHidden),
                resolved.path))
  /\ pc' = "done"
  /\ UNCHANGED resolved
  /\ UNCHANGED ServerFrame

NextServer == ListTools \/ CallTool \/ ExploreScan

SpecServer == InitServer /\ [][NextServer]_vars

\* C19: a CallTool request is routed by name: each of the six documented
\* tools reaches its handler and only another name is answered 'Unknown
\* tool'; ListTools advertises exactly the six tools the server executes.
C19_DispatchByName ==
  (pc = "done" /\ args.method \in {"tools/call", "tools/list"}) =>
    /\ args.method = "tools/call" =>
         ((response = Error("InvalidRequest", "unknown tool"))
            <=> tool \notin DocumentedTools)
    /\ args.method = "tools/list" => response.value = DocumentedTools

\* the relative path p names a hidden entry or lies under a hidden directory
HiddenPath(p) ==
  \E k \in 1..Len(Segs(p)) : StartsWith(Segs(p)[k], <<".">>)

\* C23: explore_project with includeHidden = false lists no hidden file and
\* nothing inside a hidden directory of the explored tree; with includeHidden
\* = true every scanned file is listed.
C23_HiddenNotListed ==
  (tool = "explore_project" /\ pc = "done" /\ response.kind = "result") =>
    LET listed == {response.value.files[k].path :
                     k \in 1..Len(response.value.files)}
        scanned == scanDirectory(fs, resolved.path)
    IN IF args.includeHidden
         THEN listed = {relative(resolved.path, scanned[k].path) :
                          k \in 1..Len(scanned)}
         ELSE \A p \in listed : ~HiddenPath(p)

====
